---- MODULE Spec2Model ----
(***************************************************************************)
(* A model of the POS backend's request handlers over the relational       *)
(* store: the session service (routers/session.py start_session,           *)
(* routers/cash_tally.py close_session) and the order status endpoint of   *)
(* the sales service (routers/purchase_order.py update_order_status).      *)
(*                                                                         *)
(* Every handler is a coroutine: it runs without interruption between two  *)
(* awaits, and other requests run while it is suspended on a store round   *)
(* trip.  Each store statement of a handler is therefore one action, and   *)
(* the code between two statements belongs to the action of the statement  *)
(* before it.  A request's writes are pending in its own transaction until *)
(* conn.commit(); reads see committed rows only; an UPDATE of a row waits   *)
(* while another transaction holds an uncommitted write of that row.       *)
(***************************************************************************)
EXTENDS Integers, Sequences, FiniteSets, TLC

(* ------------------------------ bounds ------------------------------- *)
\* requests a service has in flight at the same time under SessionSpec and
\* OrderSpec; RaceSpec has one more in flight
MaxReq == 1
\* session ids the identity column hands out
MaxSessions == 2
\* rows of the CancelledOrders table
MaxCancelled == 2
\* keys of a cash count, and the count of one denomination, under TallySpec
MaxKeys == 3
MaxCount == 2
\* rows of a query under AggSpec
MaxRows == 3
\* online orders saved
MaxOnline == 1
\* sales added to the initial store under TopSpec, each of its own product
MaxProducts == 9

Reqs == 1..MaxReq
RaceReqs == 1..(MaxReq + 1)
OrderReqs == 1..MaxReq

(* --------------------------- nullable values -------------------------- *)
\* a NULL column / a None / an absent response key is <<>>, a value v is <<v>>
Null == <<>>
Some(v) == <<v>>

(* ------------------------------ the state ----------------------------- *)
VARIABLES
    sessions,       \* CashierSessions: SessionID -> row (committed rows)
    nextSessionId,  \* the identity counter of CashierSessions.SessionID
    sales,          \* Sales joined with SaleItems: SaleID -> row (committed)
    nextSaleId,     \* the identity counter of Sales.SaleID
    cancelled,      \* CancelledOrders: the committed rows, in insertion order
    now,            \* the store's clock, read by GETDATE()
    req,            \* session service: request slot -> handler frame
    oreq            \* sales service: request slot -> handler frame

vars == <<sessions, nextSessionId, sales, nextSaleId, cancelled, now, req, oreq>>

(* ----------------------------- exceptions ----------------------------- *)
\* what a handler raises: an HTTPException with its status code, or the
\* error of a store call
HTTPException(status_code) == [type |-> "HTTPException", status_code |-> status_code]
StoreError == [type |-> "Error", status_code |-> 0]

\* an exception no handler code catches: the framework answers an
\* HTTPException with its status code and anything else with 500
Uncaught(e) == IF e.type = "HTTPException" THEN e.status_code ELSE 500

(* --------------------------- the auth service -------------------------- *)
\* what GET /auth/users/me answers: the user object, an HTTP error status,
\* or a transport failure
AuthOutcomes == {"ok", "invalid", "unreachable"}

Users ==
    { [username |-> "ana", userRole |-> "cashier"],
      [username |-> "ben", userRole |-> "manager"],
      [username |-> "sam", userRole |-> "staff"],
      [username |-> "",    userRole |-> "cashier"],
      [username |-> "gus", userRole |-> "guest"] }

\* validate_token_and_roles / get_current_active_user: what the auth call
\* raises, Null when it returns the user object.  An HTTP error of the auth
\* service is passed on with its status code (401 here)
AuthError(auth) ==
    CASE auth = "invalid"     -> Some(HTTPException(401))
      [] auth = "unreachable" -> Some(HTTPException(503))
      [] OTHER                -> Null

(* ----------------------------- the frames ----------------------------- *)
\* a response body: its message, and its sessionId key (Null when the body
\* has no such key)
NoBody == [message |-> "", sessionId |-> Null]

\* a frame of start_session or close_session: its arguments, its locals,
\* its connection, and, once it is done, the response status and body and
\* the exception the handler's code raised (Null when it returned).  stamp is
\* the value GETDATE() had in the request's pending write
ReqIdle ==
    [ kind |-> "idle", pc |-> "idle", conn |-> "none", status |-> 0,
      body |-> NoBody, error |-> Null,
      cashier |-> "", initialCash |-> 0, sessionId |-> 0,
      cashCounts |-> <<>>, sessionStart |-> 0, cashSales |-> 0,
      closingCash |-> 0, stamp |-> 0 ]

\* a frame of a handler of the sales service.  calls are the restock calls
\* the request has sent to the inventory service, results what the gather of
\* them gave; cursor holds the rows of the query that ran, response_list the
\* list of the response and response a response that is one object; username
\* and userRole are the caller's, cashierName the cashier the request names;
\* items are the items of an online order and pending is the Sales row
\* save_online_order has inserted and not committed
OrderReqIdle ==
    [ kind |-> "idle", pc |-> "idle", conn |-> "none", status |-> 0,
      body |-> NoBody, error |-> Null,
      orderId |-> 0, newStatus |-> "", cancelDetails |-> Null,
      itemsToRestock |-> <<>>, stamp |-> 0,
      calls |-> <<>>, results |-> <<>>,
      cursor |-> <<>>, response_list |-> <<>>,
      username |-> "", userRole |-> "", cashierName |-> Null,
      sessionStart |-> Null, response |-> Null,
      items |-> <<>>, pending |-> Null ]

\* the handler returns or raises: the response goes out and the finally
\* block closes the connection if one was acquired
Finish(q, status, body, error) ==
    [q EXCEPT !.pc = "done", !.status = status, !.body = body,
              !.error = error,
              !.conn = IF q.conn = "open" THEN "closed" ELSE q.conn]

\* a start_session or close_session frame that is done: its locals are gone,
\* what stays is the response and who asked for what (the username of a
\* start, the session id of a close)
SessionFinish(q, status, body, error) ==
    Finish([ReqIdle EXCEPT !.kind = q.kind, !.conn = q.conn,
                           !.cashier = IF q.kind = "start" THEN q.cashier ELSE "",
                           !.sessionId = IF q.kind = "close" THEN q.sessionId ELSE 0],
           status, body, error)

\* a frame of the sales service that is done: the request stays with the
\* response, and so does the time of the INSERT it ran, if it ran one
OrderFinish(q, status, body, error) ==
    Finish([q EXCEPT !.itemsToRestock = << >>], status, body, error)

\* the finally block of start_session and of get_session_status closes the
\* cursor before the connection: when cursor.close() raises, conn.close() is
\* not reached and the error goes to the framework
CursorCloseRaises(q) ==
    [SessionFinish(q, 500, NoBody, Some(StoreError)) EXCEPT !.conn = q.conn]

\* conn.rollback() in an except clause returns, or raises: its error then
\* replaces the HTTPException of the clause and goes to the framework
RollbackOutcomes == {"ok", "raises"}

(* ------------------------------ the store ------------------------------ *)
\* GETDATE()
GetDate == now

\* get_db_connection() of database.py, which is not among the sources: the
\* connection it returns is not in autocommit mode.  The writes of a request
\* are pending in its transaction until conn.commit(), and conn.rollback()
\* or conn.close() drops them
Autocommit == FALSE

\* the Sales and SaleItems rows the store holds at the start: SaleItems rows
\* are kept with their sale, in row order
InitialSales ==
    [ id \in 1..5 |->
        CASE id = 1 ->
               [ cashier |-> "ana", paymentMethod |-> "Cash",
                 status |-> "completed", createdAt |-> 1, totalDiscount |-> 5,
                 items |-> << [name |-> "latte", quantity |-> 2, unitPrice |-> 50],
                              [name |-> "bagel", quantity |-> 1, unitPrice |-> 30] >> ]
          [] id = 2 ->
               [ cashier |-> "ana", paymentMethod |-> "GCash",
                 status |-> "completed", createdAt |-> 1, totalDiscount |-> 0,
                 items |-> << [name |-> "tea", quantity |-> 1, unitPrice |-> 20] >> ]
          [] id = 3 ->
               [ cashier |-> "ana", paymentMethod |-> "Cash",
                 status |-> "processing", createdAt |-> 1, totalDiscount |-> 0,
                 items |-> << [name |-> "mocha", quantity |-> 1, unitPrice |-> 40] >> ]
          [] id = 4 ->
               [ cashier |-> "ana", paymentMethod |-> "Cash",
                 status |-> "completed", createdAt |-> 0, totalDiscount |-> 0,
                 items |-> << [name |-> "scone", quantity |-> 3, unitPrice |-> 10] >> ]
          [] OTHER ->
               [ cashier |-> "ben", paymentMethod |-> "Cash",
                 status |-> "processing", createdAt |-> 1, totalDiscount |-> 0,
                 items |-> << >> ] ]

\* a row INSERT INTO CashierSessions (CashierName, InitialCash) creates: the
\* other columns take the table's defaults (Status 'Active', SessionStart
\* GETDATE(), the close-time columns NULL)
NewSessionRow(cashier, initialCash, start) ==
    [ cashier |-> cashier, initialCash |-> initialCash, status |-> "Active",
      sessionStart |-> start, sessionEnd |-> Null, closingCash |-> Null,
      cashSalesAtClose |-> Null ]

\* SELECT 1 FROM CashierSessions WHERE CashierName = ? AND Status = 'Active'
HasActiveSession(cashier) ==
    \E id \in DOMAIN sessions :
        sessions[id].cashier = cashier /\ sessions[id].status = "Active"

\* a variant of the lookup below without its status condition
SessionRowOfId(id) == id \in DOMAIN sessions

\* SELECT ... FROM CashierSessions WHERE SessionID = ? AND Status = 'Active'
ActiveSessionRow(id) ==
    id \in DOMAIN sessions /\ sessions[id].status = "Active"

RECURSIVE SumItems(_)
\* SUM(si.UnitPrice * si.Quantity) over the SaleItems rows of one sale
SumItems(items) ==
    IF items = << >> THEN 0
    ELSE Head(items).unitPrice * Head(items).quantity + SumItems(Tail(items))

\* a variant of the WHERE clause below without its payment method condition
CashSaleAnyPayment(s, cashier, start) ==
    /\ s.cashier = cashier
    /\ s.status = "completed"
    /\ s.createdAt >= start

\* the WHERE clause of close_session's cash sales query
CashSaleOfSession(s, cashier, start) ==
    /\ s.cashier = cashier
    /\ s.paymentMethod = "Cash"
    /\ s.status = "completed"
    /\ s.createdAt >= start

RECURSIVE SumSales(_, _, _)
SumSales(ids, cashier, start) ==
    IF ids = {} THEN 0
    ELSE LET id == CHOOSE i \in ids : TRUE
         IN  (IF CashSaleOfSession(sales[id], cashier, start)
                 THEN SumItems(sales[id].items) ELSE 0)
             + SumSales(ids \ {id}, cashier, start)

\* SELECT ISNULL(SUM(si.UnitPrice * si.Quantity), 0) FROM Sales s JOIN
\* SaleItems si ... WHERE s.CashierName = ? AND s.PaymentMethod = 'Cash' AND
\* s.Status = 'completed' AND s.CreatedAt >= ?
CashSalesSum(cashier, start) == SumSales(DOMAIN sales, cashier, start)

(* --------------------------- the cash count --------------------------- *)
\* the denomination table of close_session.  The three fractional keys
\* (cents25, cents10, cents05) are left out: their values are binary floats
\* turned into Decimal, and no cash count of the model uses them.
denominations ==
    [ bills1000 |-> 1000, bills500 |-> 500, bills200 |-> 200,
      bills100 |-> 100, bills50 |-> 50, bills20 |-> 20,
      coins10 |-> 10, coins5 |-> 5, coins1 |-> 1 ]

RECURSIVE TallyAllKeys(_, _)
\* a variant of the loop below that takes a key outside the table at face
\* value one
TallyAllKeys(keys, cashCounts) ==
    IF keys = {} THEN 0
    ELSE LET key == CHOOSE k \in keys : TRUE
         IN  (IF key \in DOMAIN denominations
                 THEN denominations[key] ELSE 1) * cashCounts[key]
             + TallyAllKeys(keys \ {key}, cashCounts)

RECURSIVE TallyKeys(_, _)
\* the loop over request.cashCounts.items()
TallyKeys(keys, cashCounts) ==
    IF keys = {} THEN 0
    ELSE LET key == CHOOSE k \in keys : TRUE
         IN  (IF key \in DOMAIN denominations
                 THEN denominations[key] * cashCounts[key] ELSE 0)
             + TallyKeys(keys \ {key}, cashCounts)

\* closing_cash of close_session
CountedCash(cashCounts) == TallyKeys(DOMAIN cashCounts, cashCounts)

\* the cash counts the requests carry under SessionSpec and RaceSpec
CashCountInputs ==
    { [bills500 |-> 1, bills100 |-> 2, coins10 |-> 1],
      [bills20 |-> 1, vouchers |-> 3] }

InitialCashInputs == {-1, 0}

(* ---------------------------- start_session ---------------------------- *)
StartAllowedRoles == {"cashier", "manager", "admin"}

\* a variant of the except clauses below without "except HTTPException: raise"
StartExceptAll(e) == 500

\* the except clauses of start_session: "except HTTPException: raise", then
\* "except Exception" -> HTTPException(500)
StartExcept(e) == IF e.type = "HTTPException" THEN Uncaught(e) ELSE 500

\* a variant of the checks below that turns down an initial cash of zero
StartValidateRejectsZero(user, initial_cash) ==
    CASE user.userRole \notin StartAllowedRoles -> Some(HTTPException(403))
      [] user.username = ""                     -> Some(HTTPException(400))
      [] initial_cash <= 0                      -> Some(HTTPException(400))
      [] OTHER                                  -> Null

\* the checks of start_session before it touches the store: what it raises,
\* Null when it goes on
StartValidate(user, initial_cash) ==
    CASE user.userRole \notin StartAllowedRoles -> Some(HTTPException(403))
      [] user.username = ""                     -> Some(HTTPException(400))
      [] initial_cash < 0                       -> Some(HTTPException(400))
      [] OTHER                                  -> Null

\* identity values still to hand out to the start requests in flight
StartsBeforeInsert ==
    Cardinality({q \in RaceReqs : req[q].kind = "start"
                              /\ req[q].pc \in {"connect", "check", "insert"}})

\* the request arrives: the auth call and the checks, which are raised
\* outside the try block
StartBegin(r, auth, user, initial_cash) ==
    /\ req[r].kind = "idle"
    /\ nextSessionId + StartsBeforeInsert <= MaxSessions
    /\ LET q == [ReqIdle EXCEPT !.kind = "start"]
           e == IF AuthError(auth) # Null THEN AuthError(auth)
                ELSE StartValidate(user, initial_cash)
       IN  req' = [req EXCEPT ![r] =
                      IF e # Null
                      THEN SessionFinish(q, Uncaught(e[1]), NoBody, e)
                      ELSE [q EXCEPT !.cashier = user.username,
                                     !.initialCash = initial_cash,
                                     !.pc = "connect"]]
    /\ UNCHANGED <<sessions, nextSessionId, nextSaleId, sales, cancelled, now, oreq>>

\* conn = await get_db_connection(); cursor = await conn.cursor()
StartConnect(r) ==
    /\ req[r].kind = "start" /\ req[r].pc = "connect"
    /\ req' = [req EXCEPT ![r].conn = "open", ![r].pc = "check"]
    /\ UNCHANGED <<sessions, nextSessionId, nextSaleId, sales, cancelled, now, oreq>>

\* the SELECT for an Active row of the cashier, and the 409 it raises
StartCheck(r) ==
    /\ req[r].kind = "start" /\ req[r].pc = "check"
    /\ req' = [req EXCEPT ![r] =
                  IF HasActiveSession(req[r].cashier)
                  THEN SessionFinish(req[r], StartExcept(HTTPException(409)),
                                     NoBody, Some(HTTPException(409)))
                  ELSE [req[r] EXCEPT !.pc = "insert"]]
    /\ UNCHANGED <<sessions, nextSessionId, nextSaleId, sales, cancelled, now, oreq>>

\* INSERT INTO CashierSessions: the row is pending in the request's
\* transaction, the identity value is taken
StartInsert(r) ==
    /\ req[r].kind = "start" /\ req[r].pc = "insert"
    /\ req' = [req EXCEPT ![r].sessionId = nextSessionId,
                          ![r].stamp = GetDate, ![r].pc = "commit"]
    /\ nextSessionId' = nextSessionId + 1
    /\ UNCHANGED <<sessions, sales, nextSaleId, cancelled, now, oreq>>

\* the response of a start_session that went through
StartResponse(q) == [message |-> "started", sessionId |-> Null]

\* conn.commit() and the return
StartCommit(r) ==
    /\ req[r].kind = "start" /\ req[r].pc = "commit"
    /\ sessions' =
          [id \in DOMAIN sessions \cup {req[r].sessionId} |->
              IF id = req[r].sessionId
              THEN NewSessionRow(req[r].cashier, req[r].initialCash, req[r].stamp)
              ELSE sessions[id]]
    /\ req' = [req EXCEPT ![r] =
                  SessionFinish(req[r], 201, StartResponse(req[r]), Null)]
    /\ UNCHANGED <<nextSessionId, nextSaleId, sales, cancelled, now, oreq>>

\* a store call of start_session raises; the connection, if there is one, is
\* closed with the transaction uncommitted
StartFail(r) ==
    /\ req[r].kind = "start"
    /\ req[r].pc \in {"connect", "check", "insert", "commit"}
    /\ req' = [req EXCEPT ![r] =
                  SessionFinish(req[r], StartExcept(StoreError), NoBody,
                                Some(StoreError))]
    /\ UNCHANGED <<sessions, nextSessionId, nextSaleId, sales, cancelled, now, oreq>>

\* a store call of start_session raises on a connection with a cursor, and
\* so does cursor.close() in the finally block
StartCleanupFail(r) ==
    /\ req[r].kind = "start"
    /\ req[r].pc \in {"check", "insert", "commit"}
    /\ req' = [req EXCEPT ![r] = CursorCloseRaises(req[r])]
    /\ UNCHANGED <<sessions, nextSessionId, nextSaleId, sales, cancelled, now, oreq>>

(* ---------------------------- close_session ---------------------------- *)
CloseAllowedRoles == {"admin", "manager", "cashier"}

\* the role check of close_session: what it raises, Null when it goes on
CloseValidate(user) ==
    IF user.userRole \notin CloseAllowedRoles
    THEN Some(HTTPException(403)) ELSE Null

\* the except clause of close_session: "except Exception" catches whatever
\* the try block raises (an HTTPException is an Exception), rolls back and
\* raises HTTPException(500)
CloseExcept(e) == 500

\* another transaction holds an uncommitted UPDATE of the session row
SessionRowLocked(r, id) ==
    \E q \in RaceReqs \ {r} :
        req[q].kind = "close" /\ req[q].pc = "commit" /\ req[q].sessionId = id

\* the request arrives: the auth dependency and the role check, which is
\* raised outside the try block
CloseBegin(r, auth, user, sessionId, cashCounts) ==
    /\ req[r].kind = "idle"
    /\ LET q == [ReqIdle EXCEPT !.kind = "close"]
           e == IF AuthError(auth) # Null THEN AuthError(auth)
                ELSE CloseValidate(user)
       IN  req' = [req EXCEPT ![r] =
                      IF e # Null
                      THEN SessionFinish(q, Uncaught(e[1]), NoBody, e)
                      ELSE [q EXCEPT !.sessionId = sessionId,
                                     !.cashCounts = cashCounts,
                                     !.pc = "connect"]]
    /\ UNCHANGED <<sessions, nextSessionId, nextSaleId, sales, cancelled, now, oreq>>

\* conn = await get_db_connection(); async with conn.cursor()
CloseConnect(r) ==
    /\ req[r].kind = "close" /\ req[r].pc = "connect"
    /\ req' = [req EXCEPT ![r].conn = "open", ![r].pc = "select"]
    /\ UNCHANGED <<sessions, nextSessionId, nextSaleId, sales, cancelled, now, oreq>>

\* Step 1: the SELECT of the Active session row, and the HTTPException(404)
\* raised inside the try block when there is none
CloseSelect(r) ==
    /\ req[r].kind = "close" /\ req[r].pc = "select"
    /\ req' = [req EXCEPT ![r] =
                  IF ActiveSessionRow(req[r].sessionId)
                  THEN [req[r] EXCEPT
                           !.cashier = sessions[req[r].sessionId].cashier,
                           !.initialCash = sessions[req[r].sessionId].initialCash,
                           !.sessionStart = sessions[req[r].sessionId].sessionStart,
                           !.pc = "sum"]
                  ELSE SessionFinish(req[r], CloseExcept(HTTPException(404)),
                                     NoBody, Some(HTTPException(404)))]
    /\ UNCHANGED <<sessions, nextSessionId, nextSaleId, sales, cancelled, now, oreq>>

\* Step 2: the cash sales query, and Step 3: the count of the cash, which
\* runs before the next await
CloseSum(r) ==
    /\ req[r].kind = "close" /\ req[r].pc = "sum"
    /\ req' = [req EXCEPT
                  ![r].cashSales = CashSalesSum(req[r].cashier, req[r].sessionStart),
                  ![r].closingCash = CountedCash(req[r].cashCounts),
                  ![r].pc = "update"]
    /\ UNCHANGED <<sessions, nextSessionId, nextSaleId, sales, cancelled, now, oreq>>

\* Step 4: UPDATE CashierSessions SET ... WHERE SessionID = ?: pending in the
\* request's transaction; it waits for the row while another transaction
\* holds an uncommitted write of it
CloseUpdate(r) ==
    /\ req[r].kind = "close" /\ req[r].pc = "update"
    /\ ~SessionRowLocked(r, req[r].sessionId)
    /\ req' = [req EXCEPT ![r].stamp = GetDate, ![r].pc = "commit"]
    /\ UNCHANGED <<sessions, nextSessionId, nextSaleId, sales, cancelled, now, oreq>>

\* the row the UPDATE of close_session leaves
ClosedRow(row, q) ==
    [row EXCEPT !.status = "Closed", !.sessionEnd = Some(q.stamp),
                !.closingCash = Some(q.closingCash),
                !.cashSalesAtClose = Some(q.cashSales)]

\* the response of a close_session that went through
CloseResponse(q) == [message |-> "closed", sessionId |-> Some(q.sessionId)]

\* conn.commit() and the return.  The UPDATE names the row by SessionID
\* alone: it applies to the row whatever its status is by now
CloseCommit(r) ==
    /\ req[r].kind = "close" /\ req[r].pc = "commit"
    /\ sessions' =
          [id \in DOMAIN sessions |->
              IF id = req[r].sessionId THEN ClosedRow(sessions[id], req[r])
              ELSE sessions[id]]
    /\ req' = [req EXCEPT ![r] =
                  SessionFinish(req[r], 200, CloseResponse(req[r]), Null)]
    /\ UNCHANGED <<nextSessionId, nextSaleId, sales, cancelled, now, oreq>>

\* a store call of close_session raises: the except clause rolls back "if
\* conn"
CloseFail(r) ==
    /\ req[r].kind = "close"
    /\ req[r].pc \in {"connect", "select", "sum", "update", "commit"}
    /\ \E rollback \in RollbackOutcomes :
          /\ rollback = "raises" => req[r].conn = "open"
          /\ req' = [req EXCEPT ![r] =
                        SessionFinish(req[r],
                                      IF rollback = "raises" THEN Uncaught(StoreError)
                                      ELSE CloseExcept(StoreError),
                                      NoBody, Some(StoreError))]
    /\ UNCHANGED <<sessions, nextSessionId, nextSaleId, sales, cancelled, now, oreq>>

(* ------------------------- update_order_status ------------------------- *)
UpdateAllowedRoles == {"admin", "manager", "staff", "cashier"}

\* the values of UpdateOrderStatusRequest.newStatus
OrderStatuses == {"completed", "cancelled", "processing"}

\* an order id as the path carries it, split at its dashes: each part is a
\* run of digits (numeric, with its value) or some other text
Digits(n) == [numeric |-> TRUE, value |-> n]
Text == [numeric |-> FALSE, value |-> 0]

\* "SO-1", "5", "SO-6" (no such sale), "1-SO"
OrderIdInputs ==
    { <<Text, Digits(1)>>, <<Digits(5)>>, <<Text, Digits(6)>>, <<Digits(1), Text>> }

\* int(order_id.split('-')[-1]): the number, Null for a ValueError
ParseOrderId(order_id) ==
    LET last == order_id[Len(order_id)]
    IN  IF last.numeric THEN Some(last.value) ELSE Null

\* the checks of update_order_status before it asks for a connection: what
\* it raises, Null when it goes on
UpdateValidate(user, order_id) ==
    CASE user.userRole \notin UpdateAllowedRoles -> Some(HTTPException(403))
      [] ParseOrderId(order_id) = Null            -> Some(HTTPException(400))
      [] OTHER                                    -> Null

\* a variant of the check below that looks at cancelDetails alone
ManagerDetailsMissing(cancelDetails) == cancelDetails = Null

\* not request.cancelDetails or not request.cancelDetails.managerUsername
ManagerMissing(cancelDetails) ==
    cancelDetails = Null \/ cancelDetails[1].managerUsername = ""

CancelDetailsInputs ==
    { Null, Some([managerUsername |-> ""]), Some([managerUsername |-> "ben"]) }

\* the request bodies: cancelDetails comes with a cancellation only
UpdateRequestInputs ==
    { rq \in [newStatus : OrderStatuses, cancelDetails : CancelDetailsInputs] :
         rq.newStatus # "cancelled" => rq.cancelDetails = Null }

\* the inner except clause of the cancellation: "except Exception" catches
\* whatever the write sequence raises, rolls back and raises
\* HTTPException(500)
CancelExcept(e) == 500

\* what update_order_status raises to the caller from a store step
UpdateExcept(q, e) ==
    IF q.newStatus = "cancelled" THEN Uncaught(HTTPException(CancelExcept(e)))
    ELSE Uncaught(e)

\* another transaction holds an uncommitted UPDATE of the Sales row
SaleRowLocked(r, id) ==
    \E q \in OrderReqs \ {r} :
        /\ oreq[q].kind = "update" /\ oreq[q].orderId = id
        /\ oreq[q].pc \in {"insert", "items", "commit"}

\* CancelledOrders rows still to come from the cancellations in flight
CancelsInFlight ==
    Cardinality({q \in OrderReqs : oreq[q].kind = "update"
                              /\ oreq[q].newStatus = "cancelled"
                              /\ oreq[q].pc \in {"connect", "update", "insert",
                                                "items", "commit"}})

UpdBegin(r, auth, user, order_id, request) ==
    /\ oreq[r].kind = "idle"
    /\ request.newStatus = "cancelled"
          => Len(cancelled) + CancelsInFlight < MaxCancelled
    /\ LET e == IF AuthError(auth) # Null THEN AuthError(auth)
                ELSE UpdateValidate(user, order_id)
           q == [OrderReqIdle EXCEPT !.kind = "update"]
       IN  oreq' = [oreq EXCEPT ![r] =
                      IF e # Null THEN OrderFinish(q, Uncaught(e[1]), NoBody, e)
                      ELSE [q EXCEPT !.newStatus = request.newStatus,
                                     !.cancelDetails = request.cancelDetails,
                                     !.orderId = ParseOrderId(order_id)[1],
                                     !.pc = "connect"]]
    /\ UNCHANGED <<sessions, nextSessionId, nextSaleId, sales, cancelled, now, req>>

\* conn = await get_db_connection(), then, with the cursor open, the check
\* of the cancellation's manager username
UpdConnect(r) ==
    /\ oreq[r].kind = "update" /\ oreq[r].pc = "connect"
    /\ LET q == [oreq[r] EXCEPT !.conn = "open"]
       IN  oreq' = [oreq EXCEPT ![r] =
                      IF q.newStatus = "cancelled" /\ ManagerMissing(q.cancelDetails)
                      THEN OrderFinish(q, Uncaught(HTTPException(400)), NoBody,
                                       Some(HTTPException(400)))
                      ELSE [q EXCEPT !.pc = "update"]]
    /\ UNCHANGED <<sessions, nextSessionId, nextSaleId, sales, cancelled, now, req>>

\* the Sales rows after UPDATE Sales SET Status = ? WHERE SaleID = ?
SalesUpdated(q) ==
    IF q.orderId \in DOMAIN sales
    THEN [sales EXCEPT ![q.orderId].status = q.newStatus]
    ELSE sales

\* a variant of the step below with a conn.commit() right after the UPDATE
UpdUpdateCommitted(r) ==
    /\ oreq[r].kind = "update" /\ oreq[r].pc = "update"
    /\ ~SaleRowLocked(r, oreq[r].orderId)
    /\ oreq' = [oreq EXCEPT ![r] =
                  IF oreq[r].orderId \notin DOMAIN sales
                  THEN OrderFinish(oreq[r], UpdateExcept(oreq[r], HTTPException(404)),
                                   NoBody, Some(HTTPException(404)))
                  ELSE [oreq[r] EXCEPT
                           !.pc = IF oreq[r].newStatus = "cancelled"
                                  THEN "insert" ELSE "commit"]]
    /\ sales' = SalesUpdated(oreq[r])
    /\ UNCHANGED <<sessions, nextSessionId, nextSaleId, cancelled, now, req>>

\* UPDATE Sales SET Status = ? WHERE SaleID = ?, pending in the request's
\* transaction, and the rowcount check
UpdUpdate(r) ==
    /\ oreq[r].kind = "update" /\ oreq[r].pc = "update"
    /\ ~SaleRowLocked(r, oreq[r].orderId)
    /\ oreq' = [oreq EXCEPT ![r] =
                  IF oreq[r].orderId \notin DOMAIN sales
                  THEN OrderFinish(oreq[r], UpdateExcept(oreq[r], HTTPException(404)),
                                   NoBody, Some(HTTPException(404)))
                  ELSE [oreq[r] EXCEPT
                           !.pc = IF oreq[r].newStatus = "cancelled"
                                  THEN "insert" ELSE "commit"]]
    /\ sales' = IF Autocommit THEN SalesUpdated(oreq[r]) ELSE sales
    /\ UNCHANGED <<sessions, nextSessionId, nextSaleId, cancelled, now, req>>

\* INSERT INTO CancelledOrders (SaleID, ManagerUsername, CancelledAt),
\* pending in the request's transaction
UpdInsert(r) ==
    /\ oreq[r].kind = "update" /\ oreq[r].pc = "insert"
    /\ oreq' = [oreq EXCEPT ![r].stamp = GetDate, ![r].pc = "items"]
    /\ cancelled' = IF Autocommit
                    THEN Append(cancelled,
                                [ saleId |-> oreq[r].orderId,
                                  managerUsername |->
                                      oreq[r].cancelDetails[1].managerUsername,
                                  cancelledAt |-> GetDate ])
                    ELSE cancelled
    /\ UNCHANGED <<sessions, nextSessionId, nextSaleId, sales, now, req>>

\* a variant of the step below that goes on to the restock calls with the
\* transaction still open
UpdItemsThenRestock(r) ==
    /\ oreq[r].kind = "update" /\ oreq[r].pc = "items"
    /\ oreq' = [oreq EXCEPT ![r].itemsToRestock = sales[oreq[r].orderId].items,
                          ![r].pc = "restock"]
    /\ UNCHANGED <<sessions, nextSessionId, nextSaleId, sales, cancelled, now, req>>

\* SELECT ItemName, Quantity, Category FROM SaleItems WHERE SaleID = ?
UpdItems(r) ==
    /\ oreq[r].kind = "update" /\ oreq[r].pc = "items"
    /\ oreq' = [oreq EXCEPT ![r].itemsToRestock = sales[oreq[r].orderId].items,
                          ![r].pc = "commit"]
    /\ UNCHANGED <<sessions, nextSessionId, nextSaleId, sales, cancelled, now, req>>

\* a variant of the row below that leaves the manager out
CancellationRecordUnnamed(q) ==
    [ saleId |-> q.orderId, managerUsername |-> "", cancelledAt |-> q.stamp ]

\* the CancelledOrders row of a cancellation
CancellationRecord(q) ==
    [ saleId |-> q.orderId,
      managerUsername |-> q.cancelDetails[1].managerUsername,
      cancelledAt |-> q.stamp ]

\* the response of an update_order_status that went through
UpdateResponse(q) ==
    [ message |-> IF q.newStatus = "cancelled" THEN "cancelled" ELSE "updated",
      sessionId |-> Null ]

\* conn.commit(): the status change, and the cancellation record with it.
\* A cancellation with items to restock goes on to the restock calls; the
\* other requests return
UpdCommit(r) ==
    /\ oreq[r].kind = "update" /\ oreq[r].pc = "commit"
    /\ sales' = IF Autocommit THEN sales ELSE SalesUpdated(oreq[r])
    /\ cancelled' = IF oreq[r].newStatus = "cancelled" /\ ~Autocommit
                    THEN Append(cancelled, CancellationRecord(oreq[r]))
                    ELSE cancelled
    /\ oreq' = [oreq EXCEPT ![r] =
                  IF oreq[r].newStatus = "cancelled" /\ oreq[r].itemsToRestock # << >>
                  THEN [oreq[r] EXCEPT !.pc = "restock"]
                  ELSE OrderFinish(oreq[r], 200, UpdateResponse(oreq[r]), Null)]
    /\ UNCHANGED <<sessions, nextSessionId, nextSaleId, now, req>>

\* what a restock call comes to: an answer of 200, an answer of another
\* status, or an exception of the transport
RestockOutcomes == {"200", "500", "exception"}

\* an exception of an HTTP call
RequestError == [type |-> "RequestError", status_code |-> 0]

\* cancelled_items_payload
RestockPayload(items) ==
    [i \in DOMAIN items |->
        [product_name |-> items[i].name, quantity |-> items[i].quantity]]

\* tasks: the call to the ingredients endpoint and the call to the materials
\* endpoint, with the one payload
RestockCalls(items) ==
    << [service |-> "ingredients", payload |-> RestockPayload(items)],
       [service |-> "materials", payload |-> RestockPayload(items)] >>

\* a variant of the gather below without return_exceptions=True: the first
\* exception of a call is raised into the handler
GatherRaisesFirst(results) ==
    IF \E i \in DOMAIN results : results[i] = "exception"
    THEN Some(RequestError) ELSE Null

\* asyncio.gather(*tasks, return_exceptions=True): what the gather raises
\* into the handler.  An exception of a call is one of the results
GatherRaises(results) == Null

\* the two restock calls, sent together and gathered; their outcomes are
\* only logged; then the return
UpdRestock(r) ==
    /\ oreq[r].kind = "update" /\ oreq[r].pc = "restock"
    /\ \E results \in [1..2 -> RestockOutcomes] :
          LET q == [oreq[r] EXCEPT !.calls = RestockCalls(oreq[r].itemsToRestock),
                                   !.results = results]
              e == GatherRaises(results)
          IN  oreq' = [oreq EXCEPT ![r] =
                         IF e # Null
                         THEN OrderFinish(q, Uncaught(e[1]), NoBody, e)
                         ELSE OrderFinish(q, 200, UpdateResponse(q), Null)]
    /\ UNCHANGED <<sessions, nextSessionId, nextSaleId, sales, cancelled, now, req>>

\* a store call of update_order_status raises.  get_db_connection() is called
\* outside every try block
UpdFail(r) ==
    /\ oreq[r].kind = "update"
    /\ oreq[r].pc \in {"connect", "update", "insert", "items", "commit"}
    /\ \E rollback \in RollbackOutcomes :
          /\ rollback = "raises" =>
                oreq[r].newStatus = "cancelled" /\ oreq[r].pc # "connect"
          /\ oreq' = [oreq EXCEPT ![r] =
                        OrderFinish(oreq[r],
                               IF oreq[r].pc = "connect" \/ rollback = "raises"
                               THEN Uncaught(StoreError)
                               ELSE UpdateExcept(oreq[r], StoreError),
                               NoBody, Some(StoreError))]
    /\ UNCHANGED <<sessions, nextSessionId, nextSaleId, sales, cancelled, now, req>>

(* ------------------------- the session service ------------------------ *)
\* the caller has its response: the slot is free for the next request
Return(r) ==
    /\ req[r].pc = "done"
    /\ req' = [req EXCEPT ![r] = ReqIdle]
    /\ UNCHANGED <<sessions, nextSessionId, nextSaleId, sales, cancelled, now, oreq>>

Init ==
    /\ sessions = << >>
    /\ nextSessionId = 1
    /\ sales = InitialSales
    /\ nextSaleId = Len(InitialSales) + 1
    /\ cancelled = << >>
    /\ now = 1
    /\ req = [r \in RaceReqs |-> ReqIdle]
    /\ oreq = [r \in OrderReqs |-> OrderReqIdle]

StartSession(r) ==
    \/ \E auth \in AuthOutcomes, user \in Users, initial_cash \in InitialCashInputs :
          StartBegin(r, auth, user, initial_cash)
    \/ StartConnect(r)
    \/ StartCheck(r)
    \/ StartInsert(r)
    \/ StartCommit(r)
    \/ StartFail(r)
    \/ StartCleanupFail(r)

CloseSession(r) ==
    \/ \E auth \in AuthOutcomes, user \in Users,
          sessionId \in 1..MaxSessions, cashCounts \in CashCountInputs :
          CloseBegin(r, auth, user, sessionId, cashCounts)
    \/ CloseConnect(r)
    \/ CloseSelect(r)
    \/ CloseSum(r)
    \/ CloseUpdate(r)
    \/ CloseCommit(r)
    \/ CloseFail(r)

SessionNext ==
    \/ \E r \in Reqs : StartSession(r)
    \/ \E r \in Reqs : CloseSession(r)
    \/ \E r \in Reqs : Return(r)

\* the session service over the store
SessionSpec == Init /\ [][SessionNext]_vars

RaceNext ==
    \/ \E r \in RaceReqs : StartSession(r)
    \/ \E r \in RaceReqs : CloseSession(r)
    \/ \E r \in RaceReqs : Return(r)

\* the session service with one more request in flight
RaceSpec == Init /\ [][RaceNext]_vars

(* ---------------------------- the cash count --------------------------- *)
\* the keys a cash count can carry: the table's, and one the table has not
CashCountKeys == DOMAIN denominations \cup {"vouchers"}

\* the cash counts of at most MaxKeys keys with counts up to MaxCount
TallyInputs ==
    UNION { [D -> 0..MaxCount] :
              D \in {S \in SUBSET CashCountKeys : Cardinality(S) <= MaxKeys} }

\* a close_session request that has found its Active session row and is to
\* count the cash, for every cash count
TallyInit ==
    /\ sessions = [id \in {1} |-> NewSessionRow("ana", 0, 1)]
    /\ nextSessionId = 2
    /\ sales = InitialSales
    /\ nextSaleId = Len(InitialSales) + 1
    /\ cancelled = << >>
    /\ now = 1
    /\ \E cashCounts \in TallyInputs :
          req = [r \in RaceReqs |->
                    IF r = 1
                    THEN [ReqIdle EXCEPT !.kind = "close", !.pc = "sum",
                                         !.conn = "open", !.sessionId = 1,
                                         !.cashCounts = cashCounts,
                                         !.cashier = "ana", !.sessionStart = 1]
                    ELSE ReqIdle]
    /\ oreq = [r \in OrderReqs |-> OrderReqIdle]

TallyNext ==
    \/ \E r \in Reqs : CloseSum(r)
    \/ \E r \in Reqs : CloseUpdate(r)
    \/ \E r \in Reqs : CloseCommit(r)

\* the count of the cash of close_session over every cash count
TallySpec == TallyInit /\ [][TallyNext]_vars

(* --------------------------- the aggregation --------------------------- *)
\* get_processing_orders, get_all_orders and get_todays_cancelled_orders
\* build their response from the rows of their query with the same loop.  A
\* row of the query is a Sales row LEFT JOINed with one of its SaleItems
\* rows: saleId, status, cashierName, totalDiscount and, NULL when the sale
\* has no item, saleItemId, itemName, quantity, unitPrice.  Amounts are in
\* cents.  The columns the loop only copies (order type, payment method,
\* date, category, addons, GCash reference) are left out.
AggregationEndpoints ==
    {"get_processing_orders", "get_all_orders", "get_todays_cancelled_orders"}

\* Python's truth value of a nullable number: None and 0 are false
Truthy(x) == x # Null /\ x[1] # 0

\* x or 0
OrZero(x) == IF Truthy(x) THEN x[1] ELSE 0

\* f with key k set to v, k new or not
Put(f, k, v) == [j \in DOMAIN f \cup {k} |-> IF j = k THEN v ELSE f[j]]

\* the loop's state before the first row: orders_dict with its keys in
\* insertion order, and item_subtotals
NoOrders == [keys |-> << >>, orders_dict |-> << >>, item_subtotals |-> << >>]

\* a fresh entry of orders_dict and of item_subtotals for the sale of a row
WithOrder(acc, row) ==
    [ keys |-> Append(acc.keys, row.saleId),
      orders_dict |->
          Put(acc.orders_dict, row.saleId,
              [ id |-> <<"SO", row.saleId>>, status |-> row.status,
                cashierName |-> row.cashierName,
                items |-> 0, orderItems |-> << >>,
                totalDiscount |-> row.totalDiscount ]),
      item_subtotals |-> Put(acc.item_subtotals, row.saleId, 0) ]

\* a variant of the test below that starts an order only at a row with an
\* item, as an inner join would
StartOrderWithItem(acc, row) ==
    IF row.saleId \notin DOMAIN acc.orders_dict /\ Truthy(row.saleItemId)
    THEN WithOrder(acc, row)
    ELSE acc

\* a variant of the test below that starts an order at every row whose sale
\* differs from the sale of the row before
StartOrderOnChange(acc, row) ==
    IF acc.keys = << >> \/ acc.keys[Len(acc.keys)] # row.saleId
    THEN WithOrder(acc, row)
    ELSE acc

\* if sale_id not in orders_dict
StartOrder(acc, row) ==
    IF row.saleId \notin DOMAIN acc.orders_dict
    THEN WithOrder(acc, row)
    ELSE acc

\* if row.SaleItemID
AddItem(acc, row) ==
    LET sale_id == row.saleId
        item_quantity == OrZero(row.quantity)
        item_price == OrZero(row.unitPrice)
        o == acc.orders_dict[sale_id]
    IN  IF Truthy(row.saleItemId)
        THEN [ acc EXCEPT
                 !.orders_dict[sale_id] =
                     [ o EXCEPT !.items = o.items + item_quantity,
                                !.orderItems =
                                    Append(o.orderItems,
                                           [ name |-> row.itemName,
                                             quantity |-> item_quantity,
                                             price |-> item_price ]) ],
                 !.item_subtotals[sale_id] =
                     acc.item_subtotals[sale_id] + item_price * item_quantity ]
        ELSE acc

\* the body of "for row in rows"
AddRow(acc, row) == AddItem(StartOrder(acc, row), row)

RECURSIVE AddRows(_, _)
\* for row in rows
AddRows(acc, rows) ==
    IF rows = << >> THEN acc
    ELSE AddRows(AddRow(acc, Head(rows)), Tail(rows))

\* a variant of the finalization below that forgets the discount
FinalOrderUndiscounted(acc, sale_id) ==
    LET order_data == acc.orders_dict[sale_id]
    IN  [ id |-> order_data.id, status |-> order_data.status,
          cashierName |-> order_data.cashierName,
          items |-> order_data.items, orderItems |-> order_data.orderItems,
          total |-> acc.item_subtotals[sale_id] ]

\* the body of "for sale_id, order_data in orders_dict.items()": the order
\* without its _totalDiscount and with its total
FinalOrder(acc, sale_id) ==
    LET order_data == acc.orders_dict[sale_id]
    IN  [ id |-> order_data.id, status |-> order_data.status,
          cashierName |-> order_data.cashierName,
          items |-> order_data.items, orderItems |-> order_data.orderItems,
          total |-> acc.item_subtotals[sale_id] - order_data.totalDiscount ]

\* response_list: the orders in the insertion order of orders_dict
Aggregate(rows) ==
    LET acc == AddRows(NoOrders, rows)
    IN  [i \in 1..Len(acc.keys) |-> FinalOrder(acc, acc.keys[i])]

\* rows = await cursor.fetchall(), the loops, and the return
QueryFetch(r) ==
    /\ oreq[r].kind \in AggregationEndpoints /\ oreq[r].pc = "fetch"
    /\ oreq' = [oreq EXCEPT ![r] =
                  OrderFinish([oreq[r] EXCEPT
                                  !.response_list = Aggregate(oreq[r].cursor)],
                              200, NoBody, Null)]
    /\ UNCHANGED <<sessions, nextSessionId, nextSaleId, sales, cancelled, now, req>>

(* ------------------------ the aggregation alone ------------------------ *)
\* the sale ids of the rows under AggSpec
AggSaleIds == 1..3

\* the order columns of a row of a sale
AggOrderColumns(sale_id) ==
    [ saleId |-> sale_id,
      status |-> IF sale_id = 2 THEN "cancelled" ELSE "processing",
      cashierName |-> IF sale_id = 3 THEN "ben" ELSE "ana",
      totalDiscount |-> IF sale_id = 1 THEN 5 ELSE 0 ]

\* the item columns of a row: no item, two items, an item with a NULL
\* quantity, an item with a NULL price
AggItemColumns ==
    { [saleItemId |-> Null, itemName |-> "", quantity |-> Null, unitPrice |-> Null],
      [saleItemId |-> Some(1), itemName |-> "latte", quantity |-> Some(2),
       unitPrice |-> Some(50)],
      [saleItemId |-> Some(2), itemName |-> "bagel", quantity |-> Some(1),
       unitPrice |-> Some(30)],
      [saleItemId |-> Some(3), itemName |-> "tea", quantity |-> Null,
       unitPrice |-> Some(20)],
      [saleItemId |-> Some(4), itemName |-> "mocha", quantity |-> Some(1),
       unitPrice |-> Null] }

AggRows ==
    { [ saleId |-> AggOrderColumns(s).saleId, status |-> AggOrderColumns(s).status,
        cashierName |-> AggOrderColumns(s).cashierName,
        totalDiscount |-> AggOrderColumns(s).totalDiscount,
        saleItemId |-> i.saleItemId, itemName |-> i.itemName,
        quantity |-> i.quantity, unitPrice |-> i.unitPrice ] :
      s \in AggSaleIds, i \in AggItemColumns }

\* the sequences of at most MaxRows rows
AggInputs == UNION { [1..n -> AggRows] : n \in 0..MaxRows }

\* a request of an aggregating endpoint whose query has run, for every
\* sequence of rows
AggInit ==
    /\ sessions = << >>
    /\ nextSessionId = 1
    /\ sales = InitialSales
    /\ nextSaleId = Len(InitialSales) + 1
    /\ cancelled = << >>
    /\ now = 1
    /\ req = [r \in RaceReqs |-> ReqIdle]
    /\ \E kind \in AggregationEndpoints, rows \in AggInputs :
          oreq = [r \in OrderReqs |->
                     IF r = 1
                     THEN [OrderReqIdle EXCEPT !.kind = kind, !.pc = "fetch",
                                               !.conn = "open", !.cursor = rows]
                     ELSE OrderReqIdle]

AggNext == \E r \in OrderReqs : QueryFetch(r)

\* the aggregation loop over every sequence of rows
AggSpec == AggInit /\ [][AggNext]_vars

(* ----------------------- the queries of the reads ---------------------- *)
\* CAST(t AS DATE): the clock of the store ticks once a day
DateOf(t) == t

\* the columns of a sale in a row of the order queries
SaleColumns(id) ==
    [ saleId |-> id, status |-> sales[id].status,
      cashierName |-> sales[id].cashier,
      totalDiscount |-> sales[id].totalDiscount ]

\* a row of the order queries: a Sales row LEFT JOINed with its k-th
\* SaleItems row, or with NULLs (k = 0) when the sale has no item
JoinedRow(id, k) ==
    LET s == SaleColumns(id)
        items == sales[id].items
    IN  [ saleId |-> s.saleId, status |-> s.status,
          cashierName |-> s.cashierName, totalDiscount |-> s.totalDiscount,
          saleItemId |-> IF k = 0 THEN Null ELSE Some(k),
          itemName |-> IF k = 0 THEN "" ELSE items[k].name,
          quantity |-> IF k = 0 THEN Null ELSE Some(items[k].quantity),
          unitPrice |-> IF k = 0 THEN Null ELSE Some(items[k].unitPrice) ]

\* the SaleItems rows a LEFT JOIN gives a sale: 0 stands for the row of NULLs
LeftJoinedItems(id) ==
    IF sales[id].items = << >> THEN {0} ELSE DOMAIN sales[id].items

RECURSIVE Orderings(_)
\* what ORDER BY leaves open: every sequence of the rows in which the sort
\* keys do not decrease.  An entry is <<key, tag, row>>; the tag tells equal
\* rows apart
Orderings(entries) ==
    IF entries = {} THEN { << >> }
    ELSE UNION { { <<e[3]>> \o t : t \in Orderings(entries \ {e}) } :
                 e \in { e \in entries : \A f \in entries : e[1] <= f[1] } }

\* the sort key of ORDER BY s.CreatedAt, s.SaleID
ByCreatedAtAndId(id) == sales[id].createdAt * nextSaleId + id

\* the rows of the sales ids, LEFT JOINed with their items, each with its
\* sort key: sign is 1 for ASC and -1 for DESC
SaleEntries(ids, sign) ==
    UNION { { <<sign * ByCreatedAtAndId(id), <<id, k>>, JoinedRow(id, k)>> :
              k \in LeftJoinedItems(id) } : id \in ids }

\* WHERE s.Status IN ('processing', 'completed', 'cancelled')
ListedStatuses == {"processing", "completed", "cancelled"}

\* a variant of the condition below that filters by the cashierName
\* parameter for every role
ProcessingFilterByParameter(q, id) ==
    /\ sales[id].status \in ListedStatuses
    /\ q.cashierName # Null => sales[id].cashier = q.cashierName[1]

\* the WHERE clause of get_processing_orders: admin and manager get the
\* orders of the cashier the parameter names, or of all cashiers; everybody
\* else gets their own
ProcessingFilter(q, id) ==
    /\ sales[id].status \in ListedStatuses
    /\ IF q.userRole \in {"admin", "manager"}
       THEN q.cashierName # Null => sales[id].cashier = q.cashierName[1]
       ELSE sales[id].cashier = q.username

\* the result sets the query of get_processing_orders can give: ORDER BY
\* s.CreatedAt ASC, s.SaleID ASC leaves the order of the items of a sale open
ProcessingRows(q) ==
    Orderings(SaleEntries({ id \in DOMAIN sales : ProcessingFilter(q, id) }, 1))

\* the result sets the query of get_all_orders can give: ORDER BY
\* s.CreatedAt DESC, s.SaleID DESC
AllOrdersRows ==
    Orderings(SaleEntries({ id \in DOMAIN sales :
                              sales[id].status \in ListedStatuses }, -1))

\* the WHERE clause of get_todays_cancelled_orders, for the c-th
\* CancelledOrders row
CancelledToday(q, c) ==
    /\ cancelled[c].saleId \in DOMAIN sales
    /\ sales[cancelled[c].saleId].status = "cancelled"
    /\ sales[cancelled[c].saleId].cashier = q.cashierName[1]
    /\ DateOf(cancelled[c].cancelledAt) = DateOf(GetDate)

\* the result sets the query of get_todays_cancelled_orders can give: Sales
\* JOIN CancelledOrders LEFT JOIN SaleItems has the rows of a sale once per
\* CancelledOrders row of the sale, ORDER BY co.CancelledAt DESC
CancelledRows(q) ==
    Orderings(UNION { { << 0 - cancelled[c].cancelledAt, <<c, k>>,
                           JoinedRow(cancelled[c].saleId, k) >> :
                        k \in LeftJoinedItems(cancelled[c].saleId) } :
                      c \in { c \in DOMAIN cancelled : CancelledToday(q, c) } })

RECURSIVE JoinedItems(_)
\* Sales JOIN SaleItems over the sales ids: the item rows, each with the
\* payment method of its sale
JoinedItems(ids) ==
    IF ids = {} THEN << >>
    ELSE LET id == CHOOSE i \in ids : \A j \in ids : i <= j
             items == sales[id].items
         IN  [ k \in DOMAIN items |->
                  [ paymentMethod |-> sales[id].paymentMethod,
                    itemName |-> items[k].name, quantity |-> items[k].quantity,
                    unitPrice |-> items[k].unitPrice ] ]
             \o JoinedItems(ids \ {id})

RECURSIVE Sum(_)
\* SUM over a column
Sum(column) == IF column = << >> THEN 0 ELSE Head(column) + Sum(Tail(column))

\* the row of sums both sales metrics queries select, over the item rows
SalesMetrics(rows) ==
    [ totalSales |-> Sum([k \in DOMAIN rows |-> rows[k].unitPrice * rows[k].quantity]),
      cashSales  |-> Sum([k \in DOMAIN rows |->
                            IF rows[k].paymentMethod = "Cash"
                            THEN rows[k].unitPrice * rows[k].quantity ELSE 0]),
      gcashSales |-> Sum([k \in DOMAIN rows |->
                            IF rows[k].paymentMethod = "GCash"
                            THEN rows[k].unitPrice * rows[k].quantity ELSE 0]),
      itemsSold  |-> Sum([k \in DOMAIN rows |-> rows[k].quantity]) ]

\* SalesMetricsResponse(totalSales=0.0, cashSales=0.0, gcashSales=0.0, itemsSold=0)
NoSalesMetrics ==
    [totalSales |-> 0, cashSales |-> 0, gcashSales |-> 0, itemsSold |-> 0]

\* the completed sales of a cashier since a session start
CompletedSince(cashierName, start) ==
    { id \in DOMAIN sales : /\ sales[id].status = "completed"
                            /\ sales[id].cashier = cashierName
                            /\ sales[id].createdAt >= start }

\* a variant of the sales below without the condition on their date
CompletedAnyDay(cashierName) ==
    { id \in DOMAIN sales : /\ sales[id].status = "completed"
                            /\ sales[id].cashier = cashierName }

\* the completed sales of a cashier dated today
CompletedToday(cashierName) ==
    { id \in DOMAIN sales : /\ sales[id].status = "completed"
                            /\ sales[id].cashier = cashierName
                            /\ DateOf(sales[id].createdAt) = DateOf(GetDate) }

\* SELECT SessionStart FROM CashierSessions WHERE CashierName = ? AND
\* Status = 'Active': the rows fetchone() can return
ActiveSessionStarts(cashierName) ==
    { sessions[id].sessionStart :
        id \in { i \in DOMAIN sessions : /\ sessions[i].cashier = cashierName
                                         /\ sessions[i].status = "Active" } }

\* TOP 10
TopLimit == 10

\* the result sets the query of get_top_products_today can give: one row per
\* item name with the sum of its quantities, ORDER BY TotalQuantitySold
\* DESC, the first TopLimit of them
TopProductsRows(cashierName) ==
    LET rows == JoinedItems(CompletedToday(cashierName))
        names == { rows[k].itemName : k \in DOMAIN rows }
        total(name) == Sum([k \in DOMAIN rows |->
                              IF rows[k].itemName = name THEN rows[k].quantity
                              ELSE 0])
        grouped == { << 0 - total(name), name,
                        [ItemName |-> name, TotalQuantitySold |-> total(name)] >> :
                     name \in names }
    IN  { IF Len(t) <= TopLimit THEN t ELSE SubSeq(t, 1, TopLimit) :
          t \in Orderings(grouped) }

(* ------------------- the read endpoints of the sales ------------------- *)
ReadEndpoints ==
    AggregationEndpoints \cup
    { "get_current_session_sales_metrics", "get_todays_sales_metrics",
      "get_top_products_today" }

\* allowed_roles of each read endpoint
ReadAllowedRoles(endpoint) ==
    CASE endpoint = "get_processing_orders" -> {"admin", "manager", "staff", "cashier"}
      [] endpoint = "get_all_orders"        -> {"admin", "manager"}
      [] OTHER                              -> {"admin", "manager", "cashier"}

\* the cashierName a request can name: a query parameter that may be absent
\* for get_processing_orders, none for get_all_orders, a required field of
\* the body for the others
CashierNameInputs(endpoint) ==
    CASE endpoint = "get_processing_orders" -> {Null, Some("ana"), Some("ben")}
      [] endpoint = "get_all_orders"        -> {Null}
      [] OTHER                              -> {Some("ana"), Some("ben")}

\* the callers of the read endpoints: the users, and an admin
Callers == Users \cup { [username |-> "ada", userRole |-> "admin"] }

\* a variant of the check below that lets every role through
ReadValidateNone(endpoint, user) == Null

\* the role check of a read endpoint: what it raises, Null when it goes on
ReadValidate(endpoint, user) ==
    IF user.userRole \notin ReadAllowedRoles(endpoint)
    THEN Some(HTTPException(403)) ELSE Null

\* the request arrives: the auth call and the role check, before the try
\* block
ReadBegin(r, endpoint, auth, user, cashierName) ==
    /\ oreq[r].kind = "idle"
    /\ LET e == IF AuthError(auth) # Null THEN AuthError(auth)
                ELSE ReadValidate(endpoint, user)
           q == [OrderReqIdle EXCEPT !.kind = endpoint]
       IN  oreq' = [oreq EXCEPT ![r] =
                      IF e # Null THEN OrderFinish(q, Uncaught(e[1]), NoBody, e)
                      ELSE [q EXCEPT !.username = user.username,
                                     !.userRole = user.userRole,
                                     !.cashierName = cashierName,
                                     !.pc = "connect"]]
    /\ UNCHANGED <<sessions, nextSessionId, nextSaleId, sales, cancelled, now, req>>

\* conn = await get_db_connection()
ReadConnect(r) ==
    /\ oreq[r].kind \in ReadEndpoints /\ oreq[r].pc = "connect"
    /\ oreq' = [oreq EXCEPT ![r].conn = "open",
                            ![r].pc = IF oreq[r].kind = "get_current_session_sales_metrics"
                                      THEN "session" ELSE "execute"]
    /\ UNCHANGED <<sessions, nextSessionId, nextSaleId, sales, cancelled, now, req>>

\* Step 1 of get_current_session_sales_metrics: the start of the cashier's
\* active session; all zeros when there is none
MetricsSession(r) ==
    /\ oreq[r].kind = "get_current_session_sales_metrics" /\ oreq[r].pc = "session"
    /\ LET starts == ActiveSessionStarts(oreq[r].cashierName[1])
       IN  IF starts = {}
           THEN oreq' = [oreq EXCEPT ![r] =
                           OrderFinish([oreq[r] EXCEPT !.response = Some(NoSalesMetrics)],
                                       200, NoBody, Null)]
           ELSE \E start \in starts :
                   oreq' = [oreq EXCEPT ![r].sessionStart = Some(start),
                                        ![r].pc = "execute"]
    /\ UNCHANGED <<sessions, nextSessionId, nextSaleId, sales, cancelled, now, req>>

\* the result sets the query of a read endpoint can give
ReadRows(q) ==
    CASE q.kind = "get_processing_orders" -> ProcessingRows(q)
      [] q.kind = "get_all_orders" -> AllOrdersRows
      [] q.kind = "get_todays_cancelled_orders" -> CancelledRows(q)
      [] q.kind = "get_top_products_today" -> TopProductsRows(q.cashierName[1])
      [] q.kind = "get_todays_sales_metrics" ->
            { << SalesMetrics(JoinedItems(CompletedToday(q.cashierName[1]))) >> }
      [] q.kind = "get_current_session_sales_metrics" ->
            { << SalesMetrics(JoinedItems(CompletedSince(q.cashierName[1],
                                                         q.sessionStart[1]))) >> }

\* await cursor.execute(sql, ...)
ReadExecute(r) ==
    /\ oreq[r].kind \in ReadEndpoints /\ oreq[r].pc = "execute"
    /\ \E rows \in ReadRows(oreq[r]) :
          oreq' = [oreq EXCEPT ![r].cursor = rows, ![r].pc = "fetch"]
    /\ UNCHANGED <<sessions, nextSessionId, nextSaleId, sales, cancelled, now, req>>

\* row = await cursor.fetchone() of a sales metrics endpoint, and the return
MetricsFetch(r) ==
    /\ oreq[r].kind \in {"get_current_session_sales_metrics", "get_todays_sales_metrics"}
    /\ oreq[r].pc = "fetch"
    /\ oreq' = [oreq EXCEPT ![r] =
                  OrderFinish([oreq[r] EXCEPT !.response = Some(oreq[r].cursor[1])],
                              200, NoBody, Null)]
    /\ UNCHANGED <<sessions, nextSessionId, nextSaleId, sales, cancelled, now, req>>

\* rows = await cursor.fetchall() of get_top_products_today, and the return
TopProductsFetch(r) ==
    /\ oreq[r].kind = "get_top_products_today" /\ oreq[r].pc = "fetch"
    /\ LET rows == oreq[r].cursor
           top_products == [k \in DOMAIN rows |->
                              [name |-> rows[k].ItemName,
                               sales |-> rows[k].TotalQuantitySold]]
       IN  oreq' = [oreq EXCEPT ![r] =
                      OrderFinish([oreq[r] EXCEPT !.response_list = top_products],
                                  200, NoBody, Null)]
    /\ UNCHANGED <<sessions, nextSessionId, nextSaleId, sales, cancelled, now, req>>

\* a store call of a read endpoint raises: all of them are inside the try
\* block, whose "except Exception" raises HTTPException(500)
ReadFail(r) ==
    /\ oreq[r].kind \in ReadEndpoints
    /\ oreq[r].pc \in {"connect", "session", "execute", "fetch"}
    /\ oreq' = [oreq EXCEPT ![r] =
                  OrderFinish([oreq[r] EXCEPT !.cursor = << >>],
                              500, NoBody, Some(StoreError))]
    /\ UNCHANGED <<sessions, nextSessionId, nextSaleId, sales, cancelled, now, req>>

\* a read endpoint of the sales service
ReadOrders(r) ==
    \/ \E endpoint \in ReadEndpoints, auth \in AuthOutcomes, user \in Callers :
          \E cashierName \in CashierNameInputs(endpoint) :
             ReadBegin(r, endpoint, auth, user, cashierName)
    \/ ReadConnect(r)
    \/ MetricsSession(r)
    \/ ReadExecute(r)
    \/ QueryFetch(r)
    \/ MetricsFetch(r)
    \/ TopProductsFetch(r)
    \/ ReadFail(r)

(* -------------------------- the sales service -------------------------- *)
OrderReturn(r) ==
    /\ oreq[r].pc = "done"
    /\ oreq' = [oreq EXCEPT ![r] = OrderReqIdle]
    /\ UNCHANGED <<sessions, nextSessionId, nextSaleId, sales, cancelled, now, req>>

UpdateOrderStatus(r) ==
    \/ \E auth \in AuthOutcomes, user \in Users, order_id \in OrderIdInputs,
          request \in UpdateRequestInputs :
          UpdBegin(r, auth, user, order_id, request)
    \/ UpdConnect(r)
    \/ UpdUpdate(r)
    \/ UpdInsert(r)
    \/ UpdItems(r)
    \/ UpdCommit(r)
    \/ UpdRestock(r)
    \/ UpdFail(r)

OrderNext ==
    \/ \E r \in OrderReqs : UpdateOrderStatus(r)
    \/ \E r \in OrderReqs : OrderReturn(r)

\* the order status endpoint of the sales service over the store
OrderSpec == Init /\ [][OrderNext]_vars

(* ------------------------- the reads on their own ---------------------- *)
\* a store the two services have worked on: ana has an active session, and
\* ben has cancelled order 3
ReadInit ==
    /\ sessions = [id \in {1} |-> NewSessionRow("ana", 0, 1)]
    /\ nextSessionId = 2
    /\ sales = [InitialSales EXCEPT ![3].status = "cancelled"]
    /\ nextSaleId = Len(InitialSales) + 1
    /\ cancelled = << [ saleId |-> 3, managerUsername |-> "ben",
                        cancelledAt |-> 1 ] >>
    /\ now = 1
    /\ req = [r \in RaceReqs |-> ReqIdle]
    /\ oreq = [r \in OrderReqs |-> OrderReqIdle]

ReadNext ==
    \/ \E r \in OrderReqs : ReadOrders(r)
    \/ \E r \in OrderReqs : OrderReturn(r)

\* the read endpoints of the sales service over a store that does not change
ReadSpec == ReadInit /\ [][ReadNext]_vars

(* --------------------- the reads over a day of sales ------------------- *)
\* the item names of the sales added below: the first is sold in the
\* initial store as well
ProductNames ==
    << "latte", "cocoa", "donut", "flan", "mango", "pie", "roll", "soda",
       "taro", "ube", "wrap", "yema" >>

\* the store after n more sales of ana, completed today, sale k of them
\* with k + 2 of product k
SalesOfTheDay(n) ==
    [ id \in 1..(Len(InitialSales) + n) |->
        IF id <= Len(InitialSales) THEN InitialSales[id]
        ELSE LET k == id - Len(InitialSales)
             IN  [ cashier |-> "ana", paymentMethod |-> "Cash",
                   status |-> "completed", createdAt |-> 1, totalDiscount |-> 0,
                   items |-> << [ name |-> ProductNames[k], quantity |-> k + 2,
                                  unitPrice |-> 10 ] >> ] ]

TopInit ==
    /\ sessions = [id \in {1} |-> NewSessionRow("ana", 0, 1)]
    /\ nextSessionId = 2
    /\ \E n \in 0..MaxProducts :
          /\ sales = SalesOfTheDay(n)
          /\ nextSaleId = Len(InitialSales) + n + 1
    /\ cancelled = << >>
    /\ now = 1
    /\ req = [r \in RaceReqs |-> ReqIdle]
    /\ oreq = [r \in OrderReqs |-> OrderReqIdle]

\* the read endpoints of the sales service after a day of sales
TopSpec == TopInit /\ [][ReadNext]_vars

(* -------------------------- save_online_order -------------------------- *)
SaveAllowedRoles == {"admin", "staff", "cashier"}

\* the request bodies: status is any string, a status of the POS or not
OnlineOrderInputs ==
    [ customer_name : {"web"}, payment_method : {"GCash"},
      subtotal : {60}, total_amount : {60, 50},
      status : {"processing", "pending"},
      items : { << >>, << [name |-> "espresso", quantity |-> 1, unitPrice |-> 60] >> } ]

\* the role check of save_online_order: what it raises, Null when it goes on
SaveValidate(user) ==
    IF user.userRole \notin SaveAllowedRoles
    THEN Some(HTTPException(403)) ELSE Null

\* identity values still to hand out to the online orders in flight
SavesBeforeInsert ==
    Cardinality({q \in OrderReqs : oreq[q].kind = "save_online_order"
                               /\ oreq[q].pc \in {"connect", "insert"}})

\* the Sales row of an online order, without its items: the customer is its
\* cashier, the discount is subtotal - total_amount
OnlineSale(order_data) ==
    [ cashier |-> order_data.customer_name,
      paymentMethod |-> order_data.payment_method,
      status |-> order_data.status, createdAt |-> GetDate,
      totalDiscount |-> order_data.subtotal - order_data.total_amount,
      items |-> << >> ]

\* the request arrives: the auth call and the role check, before the try
\* block
SaveBegin(r, auth, user, order_data) ==
    /\ oreq[r].kind = "idle"
    /\ nextSaleId + SavesBeforeInsert <= Len(InitialSales) + MaxOnline
    /\ LET e == IF AuthError(auth) # Null THEN AuthError(auth)
                ELSE SaveValidate(user)
           q == [OrderReqIdle EXCEPT !.kind = "save_online_order"]
       IN  oreq' = [oreq EXCEPT ![r] =
                      IF e # Null THEN OrderFinish(q, Uncaught(e[1]), NoBody, e)
                      ELSE [q EXCEPT !.pending = Some(OnlineSale(order_data)),
                                     !.items = order_data.items,
                                     !.pc = "connect"]]
    /\ UNCHANGED <<sessions, nextSessionId, nextSaleId, sales, cancelled, now, req>>

\* conn = await get_db_connection()
SaveConnect(r) ==
    /\ oreq[r].kind = "save_online_order" /\ oreq[r].pc = "connect"
    /\ oreq' = [oreq EXCEPT ![r].conn = "open", ![r].pc = "insert"]
    /\ UNCHANGED <<sessions, nextSessionId, nextSaleId, sales, cancelled, now, req>>

\* INSERT INTO Sales ... OUTPUT INSERTED.SaleID: the identity value is taken,
\* the row is pending in the request's transaction
SaveInsertSale(r) ==
    /\ oreq[r].kind = "save_online_order" /\ oreq[r].pc = "insert"
    /\ oreq' = [oreq EXCEPT ![r].orderId = nextSaleId,
                            ![r].pending = Some([oreq[r].pending[1] EXCEPT
                                                    !.createdAt = GetDate]),
                            ![r].pc = "items"]
    /\ nextSaleId' = nextSaleId + 1
    /\ sales' = IF Autocommit THEN Put(sales, nextSaleId, oreq'[r].pending[1])
                ELSE sales
    /\ UNCHANGED <<sessions, nextSessionId, cancelled, now, req>>

\* for item in order_data.items: INSERT INTO SaleItems
SaveInsertItems(r) ==
    /\ oreq[r].kind = "save_online_order" /\ oreq[r].pc = "items"
    /\ oreq' = [oreq EXCEPT ![r].pending =
                               Some([oreq[r].pending[1] EXCEPT
                                        !.items = oreq[r].items]),
                            ![r].pc = "commit"]
    /\ sales' = IF Autocommit
                THEN [sales EXCEPT ![oreq[r].orderId].items = oreq[r].items]
                ELSE sales
    /\ UNCHANGED <<sessions, nextSessionId, nextSaleId, cancelled, now, req>>

\* await conn.commit(), and the return
SaveCommit(r) ==
    /\ oreq[r].kind = "save_online_order" /\ oreq[r].pc = "commit"
    /\ sales' = IF Autocommit THEN sales
                ELSE Put(sales, oreq[r].orderId, oreq[r].pending[1])
    /\ oreq' = [oreq EXCEPT ![r] =
                  OrderFinish([oreq[r] EXCEPT
                                  !.response = Some([pos_sale_id |-> oreq[r].orderId]),
                                  !.pending = Null, !.items = << >>],
                              201, [NoBody EXCEPT !.message = "saved"], Null)]
    /\ UNCHANGED <<sessions, nextSessionId, nextSaleId, cancelled, now, req>>

\* a store call of save_online_order raises: "except Exception" rolls back
\* and raises HTTPException(500) with the text of the error in its detail
SaveFail(r) ==
    /\ oreq[r].kind = "save_online_order"
    /\ oreq[r].pc \in {"connect", "insert", "items", "commit"}
    /\ \E rollback \in RollbackOutcomes :
          /\ rollback = "raises" => oreq[r].conn = "open"
          /\ oreq' = [oreq EXCEPT ![r] =
                        OrderFinish([oreq[r] EXCEPT !.pending = Null, !.items = << >>],
                                    IF rollback = "raises" THEN Uncaught(StoreError)
                                    ELSE 500,
                                    IF rollback = "raises" THEN NoBody
                                    ELSE [NoBody EXCEPT !.message = StoreError.type],
                                    Some(StoreError))]
    /\ UNCHANGED <<sessions, nextSessionId, nextSaleId, sales, cancelled, now, req>>

SaveOnlineOrder(r) ==
    \/ \E auth \in AuthOutcomes, user \in Users, order_data \in OnlineOrderInputs :
          SaveBegin(r, auth, user, order_data)
    \/ SaveConnect(r)
    \/ SaveInsertSale(r)
    \/ SaveInsertItems(r)
    \/ SaveCommit(r)
    \/ SaveFail(r)

(* -------------------------- get_session_status ------------------------- *)
StatusAllowedRoles == {"manager", "admin", "cashier"}

\* the cashier_name query parameter
StatusCashierInputs == {"ana", "ben"}

\* the role check of get_session_status: what validate_token_and_roles
\* raises, Null when it returns
StatusValidate(user) ==
    IF user.userRole \notin StatusAllowedRoles
    THEN Some(HTTPException(403)) ELSE Null

\* the request arrives: validate_token_and_roles, before the try block
StatusBegin(r, auth, user, cashier_name) ==
    /\ req[r].kind = "idle"
    /\ LET e == IF AuthError(auth) # Null THEN AuthError(auth)
                ELSE StatusValidate(user)
           q == [ReqIdle EXCEPT !.kind = "status"]
       IN  req' = [req EXCEPT ![r] =
                     IF e # Null THEN SessionFinish(q, Uncaught(e[1]), NoBody, e)
                     ELSE [q EXCEPT !.cashier = cashier_name, !.pc = "connect"]]
    /\ UNCHANGED <<sessions, nextSessionId, nextSaleId, sales, cancelled, now, oreq>>

\* conn = await get_db_connection(); cursor = await conn.cursor()
StatusConnect(r) ==
    /\ req[r].kind = "status" /\ req[r].pc = "connect"
    /\ req' = [req EXCEPT ![r].conn = "open", ![r].pc = "select"]
    /\ UNCHANGED <<sessions, nextSessionId, nextSaleId, sales, cancelled, now, oreq>>

\* SELECT SessionID, InitialCash, SessionStart FROM CashierSessions WHERE
\* CashierName = ? AND Status = 'Active', fetchone() and the return: the
\* body has a sessionId when a row came back
StatusSelect(r) ==
    /\ req[r].kind = "status" /\ req[r].pc = "select"
    /\ LET active == { id \in DOMAIN sessions :
                          /\ sessions[id].cashier = req[r].cashier
                          /\ sessions[id].status = "Active" }
       IN  IF active = {}
           THEN req' = [req EXCEPT ![r] = SessionFinish(req[r], 200, NoBody, Null)]
           ELSE \E id \in active :
                   req' = [req EXCEPT ![r] =
                             SessionFinish(req[r], 200,
                                           [NoBody EXCEPT !.sessionId = Some(id)],
                                           Null)]
    /\ UNCHANGED <<sessions, nextSessionId, nextSaleId, sales, cancelled, now, oreq>>

\* a store call of get_session_status raises: "except Exception" raises
\* HTTPException(500)
StatusFail(r) ==
    /\ req[r].kind = "status" /\ req[r].pc \in {"connect", "select"}
    /\ req' = [req EXCEPT ![r] = SessionFinish(req[r], 500, NoBody, Some(StoreError))]
    /\ UNCHANGED <<sessions, nextSessionId, nextSaleId, sales, cancelled, now, oreq>>

\* a store call of get_session_status raises on a connection with a cursor,
\* and so does cursor.close() in the finally block
StatusCleanupFail(r) ==
    /\ req[r].kind = "status" /\ req[r].pc = "select"
    /\ req' = [req EXCEPT ![r] = CursorCloseRaises(req[r])]
    /\ UNCHANGED <<sessions, nextSessionId, nextSaleId, sales, cancelled, now, oreq>>

GetSessionStatus(r) ==
    \/ \E auth \in AuthOutcomes, user \in Users, cashier_name \in StatusCashierInputs :
          StatusBegin(r, auth, user, cashier_name)
    \/ StatusConnect(r)
    \/ StatusSelect(r)
    \/ StatusFail(r)
    \/ StatusCleanupFail(r)

(* --------------------------- the two services -------------------------- *)
\* a request of the session service
SessionService(r) ==
    \/ StartSession(r)
    \/ CloseSession(r)
    \/ GetSessionStatus(r)
    \/ Return(r)

\* a request of the sales service
SalesService(r) ==
    \/ UpdateOrderStatus(r)
    \/ SaveOnlineOrder(r)
    \/ ReadOrders(r)
    \/ OrderReturn(r)

\* the sales service is idle and has written nothing
SalesUntouched ==
    /\ \A q \in OrderReqs : oreq[q].kind = "idle"
    /\ sales = InitialSales /\ cancelled = << >>
    /\ nextSaleId = Len(InitialSales) + 1

\* the session service is idle and has written nothing
SessionsUntouched ==
    /\ \A q \in RaceReqs : req[q].kind = "idle"
    /\ sessions = << >> /\ nextSessionId = 1

\* a behaviour works one of the two services, from the initial store
AccessNext ==
    \/ SalesUntouched /\ \E r \in Reqs : SessionService(r)
    \/ SessionsUntouched /\ \E r \in OrderReqs : SalesService(r)

\* every endpoint of both services over the store
AccessSpec == Init /\ [][AccessNext]_vars

(* ============================ properties ============================== *)
\* the Active session rows of a cashier
ActiveSessionsOf(cashier) ==
    {id \in DOMAIN sessions :
        sessions[id].cashier = cashier /\ sessions[id].status = "Active"}

\* request r takes a step
SessionStep(r) == req'[r] # req[r]
OrderStep(r) == oreq'[r] # oreq[r]

\* the rows the table had stay as they were
SessionsKept == \A id \in DOMAIN sessions :
                    id \in DOMAIN sessions' /\ sessions'[id] = sessions[id]

(* ---------------------------------- C1 --------------------------------- *)
\* C1: in every reachable state every cashier has at most one session row
\* with status Active, whatever the number of start_session requests of that
\* cashier and the interleaving of their steps.
AtMostOneActivePerCashier ==
    \A u \in Users : Cardinality(ActiveSessionsOf(u.username)) <= 1

(* ---------------------------------- C2 --------------------------------- *)
\* the caller of start_session is authorized and names a non-negative cash
StartAuthorized(user, initial_cash) ==
    /\ user.userRole \in {"cashier", "manager", "admin"}
    /\ user.username # ""
    /\ initial_cash >= 0

\* an authorized start_session request is taken on, one whose check finds no
\* Active row goes on to its insert, and after the check nothing but the
\* failure of a store call keeps it from its 201
StartGoesThrough(r) ==
    /\ \A user \in Users, initial_cash \in InitialCashInputs :
          StartAuthorized(user, initial_cash)
             => StartValidate(user, initial_cash) = Null
    /\ ( /\ req[r].kind = "start" /\ req[r].pc = "check"
         /\ ActiveSessionsOf(req[r].cashier) = {}
         /\ SessionStep(r) )
       => \/ req'[r].pc = "insert"
          \/ req'[r].error = Some(StoreError)
    /\ ( /\ req[r].kind = "start" /\ req[r].pc \in {"insert", "commit"}
         /\ SessionStep(r) )
       => \/ req'[r].pc = "commit"
          \/ req'[r].pc = "done" /\ req'[r].error = Null /\ req'[r].status = 201
          \/ req'[r].pc = "done" /\ req'[r].error = Some(StoreError)

\* request r returns from start_session
StartReturns(r) ==
    /\ req[r].kind = "start" /\ req[r].pc # "done"
    /\ req'[r].pc = "done" /\ req'[r].error = Null

\* the step creates the session row id for the cashier of request r, Active,
\* under an id no session had, and leaves the other rows alone
StartCreates(r, id) ==
    /\ id \notin DOMAIN sessions
    /\ DOMAIN sessions' = DOMAIN sessions \cup {id}
    /\ SessionsKept
    /\ sessions'[id].cashier = req[r].cashier
    /\ sessions'[id].initialCash = req[r].initialCash
    /\ sessions'[id].status = "Active"

\* C2 as stated: an authorized start_session with a non-negative initial cash
\* and no Active session of the caller succeeds, creates exactly one new
\* Active session row for that cashier, and its response returns the fresh
\* session id.
StartReturnsFreshId ==
    [][\A r \in RaceReqs :
          /\ StartGoesThrough(r)
          /\ StartReturns(r)
                => /\ req'[r].status = 201
                   /\ \E id \in DOMAIN sessions' :
                         /\ StartCreates(r, id)
                         /\ req'[r].body.sessionId = Some(id)]_vars

\* C2, amended: an authorized start_session with a non-negative initial cash
\* whose check finds no Active session of the caller, and whose store calls
\* do not fail, succeeds with 201 and creates exactly one new Active session
\* row for that cashier under a fresh id; its response carries a message and
\* no session id.
StartCreatesOneActiveSession ==
    [][\A r \in RaceReqs :
          /\ StartGoesThrough(r)
          /\ StartReturns(r)
                => /\ req'[r].status = 201
                   /\ \E id \in DOMAIN sessions' : StartCreates(r, id)
                   /\ req'[r].body.message = "started"
                   /\ req'[r].body.sessionId = Null]_vars

\* a start_session has returned 201 with no session id, and its cashier has
\* the Active row
StartedSession ==
    \E r \in RaceReqs :
        /\ req[r].kind = "start" /\ req[r].pc = "done"
        /\ req[r].status = 201 /\ req[r].body.sessionId = Null
        /\ ActiveSessionsOf(req[r].cashier) # {}

(* ---------------------------------- C3 --------------------------------- *)
\* C3: a start_session whose check finds an Active session of the caller
\* fails with 409 (not 500, unless the store call itself fails), and the
\* CashierSessions table is unchanged: no row is inserted, no id is taken,
\* the Active row is as it was.
StartConflict ==
    [][\A r \in RaceReqs :
          ( /\ req[r].kind = "start" /\ req[r].pc = "check"
            /\ ActiveSessionsOf(req[r].cashier) # {}
            /\ SessionStep(r) )
          => /\ req'[r].pc = "done"
             /\ sessions' = sessions
             /\ nextSessionId' = nextSessionId
             /\ \/ req'[r].error = Some(StoreError)
                \/ /\ req'[r].error = Some(HTTPException(409))
                   /\ req'[r].status = 409]_vars

\* a start_session was answered 409 while its cashier has an Active row
StartRefused ==
    \E r \in RaceReqs :
        /\ req[r].kind = "start" /\ req[r].pc = "done"
        /\ req[r].status = 409
        /\ ActiveSessionsOf(req[r].cashier) # {}

(* ------------------------------- C4, C5 -------------------------------- *)
\* the session id of close request r matches no row, or a row that is Closed
NoActiveRowFor(r) ==
    \/ req[r].sessionId \notin DOMAIN sessions
    \/ sessions[req[r].sessionId].status = "Closed"

\* C4: close_session with a session id that matches no row, or a row that is
\* already Closed, returns 404 to the caller and no other error status.
CloseNotFoundIs404 ==
    [][\A r \in RaceReqs :
          ( /\ req[r].kind = "close" /\ req[r].pc = "select"
            /\ NoActiveRowFor(r)
            /\ SessionStep(r)
            /\ req'[r].error # Some(StoreError) )
          => req'[r].pc = "done" /\ req'[r].status = 404]_vars

\* C5: close_session with a session id that matches no row, or a row that is
\* already Closed, ends at its lookup and leaves every CashierSessions row
\* unchanged.
CloseNotFoundWritesNothing ==
    [][\A r \in RaceReqs :
          ( /\ req[r].kind = "close" /\ req[r].pc = "select"
            /\ NoActiveRowFor(r)
            /\ SessionStep(r) )
          => req'[r].pc = "done" /\ sessions' = sessions]_vars

\* a close_session of a Closed session was turned down at its lookup, and
\* the row is Closed still
ClosedSessionTurnedDown ==
    \E r \in RaceReqs :
        /\ req[r].kind = "close" /\ req[r].pc = "done"
        /\ req[r].error = Some(HTTPException(404))
        /\ req[r].sessionId \in DOMAIN sessions
        /\ sessions[req[r].sessionId].status = "Closed"

(* ---------------------------------- C6 --------------------------------- *)
\* C6: under any interleaving of close_session and start_session requests no
\* session row is ever deleted, and once a row is Closed its status, its
\* ClosingCash and its CashSalesAtClose never change again.
ClosedIsFinal ==
    [][\A id \in DOMAIN sessions :
          /\ id \in DOMAIN sessions'
          /\ sessions[id].status = "Closed"
                => /\ sessions'[id].status = "Closed"
                   /\ sessions'[id].closingCash = sessions[id].closingCash
                   /\ sessions'[id].cashSalesAtClose = sessions[id].cashSalesAtClose]_vars

(* ---------------------------------- C7 --------------------------------- *)
\* the SaleItems rows, as <<sale, row>>, of the completed Cash sales of a
\* cashier created at or after a time
CashLinesSince(cashier, start) ==
    UNION { {<<id, k>> : k \in DOMAIN sales[id].items} :
              id \in {i \in DOMAIN sales :
                         /\ sales[i].status = "completed"
                         /\ sales[i].paymentMethod = "Cash"
                         /\ sales[i].cashier = cashier
                         /\ sales[i].createdAt >= start} }

RECURSIVE LinesTotal(_)
\* the sum of unit price times quantity over a set of SaleItems rows
LinesTotal(lines) ==
    IF lines = {} THEN 0
    ELSE LET l == CHOOSE x \in lines : TRUE
         IN  sales[l[1]].items[l[2]].unitPrice * sales[l[1]].items[l[2]].quantity
             + LinesTotal(lines \ {l})

\* the count of a key in a cash count, zero for a key it has not
CountOf(cashCounts, key) ==
    IF key \in DOMAIN cashCounts THEN cashCounts[key] ELSE 0

\* the value of a cash count, denomination by denomination
CashValue(cashCounts) ==
      1000 * CountOf(cashCounts, "bills1000")
    + 500 * CountOf(cashCounts, "bills500")
    + 200 * CountOf(cashCounts, "bills200")
    + 100 * CountOf(cashCounts, "bills100")
    + 50 * CountOf(cashCounts, "bills50")
    + 20 * CountOf(cashCounts, "bills20")
    + 10 * CountOf(cashCounts, "coins10")
    + 5 * CountOf(cashCounts, "coins5")
    + CountOf(cashCounts, "coins1")

\* C7: a close_session that goes through on an Active session s answers 200
\* and leaves s Closed with CashSalesAtClose = the sum of unit price times
\* quantity over the items of the completed Cash sales of s's cashier created
\* at or after s's start, and ClosingCash = the counted cash; the row gets no
\* other column (no variance), its cashier, initial cash and start stay, and
\* the other rows are as they were.
CloseStoresBothFigures ==
    [][\A r \in RaceReqs :
          ( /\ req[r].kind = "close" /\ req[r].pc = "commit"
            /\ req[r].sessionId \in DOMAIN sessions
            /\ sessions[req[r].sessionId].status = "Active"
            /\ req'[r].pc = "done" /\ req'[r].error = Null )
          => LET id == req[r].sessionId
                 s == sessions[id]
                 t == sessions'[id]
             IN  /\ req'[r].status = 200
                 /\ req'[r].body.sessionId = Some(id)
                 /\ DOMAIN sessions' = DOMAIN sessions
                 /\ \A j \in DOMAIN sessions \ {id} : sessions'[j] = sessions[j]
                 /\ DOMAIN t = DOMAIN s
                 /\ t.status = "Closed"
                 /\ t.cashSalesAtClose =
                       Some(LinesTotal(CashLinesSince(s.cashier, s.sessionStart)))
                 /\ t.closingCash = Some(CashValue(req[r].cashCounts))
                 /\ t.sessionEnd # Null
                 /\ t.cashier = s.cashier
                 /\ t.initialCash = s.initialCash
                 /\ t.sessionStart = s.sessionStart]_vars

\* a close_session went through and left its session Closed with cash sales
\* of 130 (two lattes at 50 and a bagel at 30) and a cash count of 710
SessionClosedWithFigures ==
    \E r \in RaceReqs :
        /\ req[r].kind = "close" /\ req[r].pc = "done" /\ req[r].status = 200
        /\ req[r].sessionId \in DOMAIN sessions
        /\ sessions[req[r].sessionId].status = "Closed"
        /\ sessions[req[r].sessionId].cashSalesAtClose = Some(130)
        /\ sessions[req[r].sessionId].closingCash = Some(710)

(* ---------------------------------- C8 --------------------------------- *)
\* C8: for every cash count given to close_session the counted cash is the
\* sum of denomination value times count over the keys of the table
\* (bills1000 .. coins1), a key outside the table adds nothing, and
\* {bills500: 1, bills100: 2, coins10: 1} counts as 710.
CountedCashIsTableSum ==
    \A r \in RaceReqs :
        (req[r].kind = "close" /\ req[r].pc \in {"update", "commit"})
        => /\ req[r].closingCash = CashValue(req[r].cashCounts)
           /\ req[r].cashCounts = [bills500 |-> 1, bills100 |-> 2, coins10 |-> 1]
                 => req[r].closingCash = 710

\* the cash of the count {bills500: 1, vouchers: 2, coins10: 1} has been
\* counted as 510
CountedWithUnknownKey ==
    \E r \in RaceReqs :
        /\ req[r].kind = "close" /\ req[r].pc \in {"update", "commit"}
        /\ req[r].cashCounts = [bills500 |-> 1, vouchers |-> 2, coins10 |-> 1]
        /\ req[r].closingCash = 510

(* ---------------------------------- C9 --------------------------------- *)
\* C9: update_order_status to cancelled with no cancelDetails, or with an
\* empty managerUsername, is answered 400 (unless the connection fails); the
\* status of every order is unchanged and no Cancellation Record is created.
CancelWithoutManagerRejected ==
    [][\A r \in OrderReqs :
          ( /\ oreq[r].kind = "update" /\ oreq[r].pc = "connect"
            /\ oreq[r].newStatus = "cancelled"
            /\ \/ oreq[r].cancelDetails = Null
               \/ oreq[r].cancelDetails[1].managerUsername = ""
            /\ OrderStep(r) )
          => /\ oreq'[r].pc = "done"
             /\ sales' = sales
             /\ cancelled' = cancelled
             /\ \/ oreq'[r].error = Some(StoreError)
                \/ /\ oreq'[r].error = Some(HTTPException(400))
                   /\ oreq'[r].status = 400]_vars

\* a cancellation of an existing order that names no manager was answered
\* 400, and the order has the status it had
CancelTurnedDown ==
    \E r \in OrderReqs :
        /\ oreq[r].kind = "update" /\ oreq[r].pc = "done"
        /\ oreq[r].newStatus = "cancelled"
        /\ oreq[r].cancelDetails = Some([managerUsername |-> ""])
        /\ oreq[r].status = 400
        /\ oreq[r].orderId \in DOMAIN sales
        /\ sales[oreq[r].orderId].status = InitialSales[oreq[r].orderId].status
        /\ cancelled = << >>

(* --------------------------------- C10 --------------------------------- *)
\* C10: a cancellation with a manager username on an existing order goes on
\* from its UPDATE to its writes, and, when its store calls do not fail, its
\* commit leaves the order with status cancelled and adds exactly one
\* Cancellation Record, for that order, with the given manager username.
CancellationRecorded ==
    [][\A r \in OrderReqs :
          /\ ( /\ oreq[r].kind = "update" /\ oreq[r].pc = "update"
               /\ oreq[r].newStatus = "cancelled"
               /\ oreq[r].orderId \in DOMAIN sales
               /\ OrderStep(r) )
             => \/ oreq'[r].pc = "insert"
                \/ oreq'[r].error = Some(StoreError)
          /\ ( /\ oreq[r].kind = "update" /\ oreq[r].pc = "commit"
               /\ oreq[r].newStatus = "cancelled"
               /\ OrderStep(r)
               /\ oreq'[r].error = Null )
             => /\ oreq[r].orderId \in DOMAIN sales'
                /\ sales'[oreq[r].orderId].status = "cancelled"
                /\ \A id \in DOMAIN sales \ {oreq[r].orderId} : sales'[id] = sales[id]
                /\ Len(cancelled') = Len(cancelled) + 1
                /\ SubSeq(cancelled', 1, Len(cancelled)) = cancelled
                /\ cancelled'[Len(cancelled')].saleId = oreq[r].orderId
                /\ oreq[r].cancelDetails # Null
                /\ cancelled'[Len(cancelled')].managerUsername
                      = oreq[r].cancelDetails[1].managerUsername
                /\ cancelled'[Len(cancelled')].managerUsername # ""]_vars

\* the cancellation of order 1 by manager ben was answered 200: the order is
\* cancelled and has its one Cancellation Record
OrderCancelledByManager ==
    \E r \in OrderReqs :
        /\ oreq[r].kind = "update" /\ oreq[r].pc = "done"
        /\ oreq[r].newStatus = "cancelled" /\ oreq[r].status = 200
        /\ oreq[r].orderId = 1
        /\ sales[1].status = "cancelled"
        /\ Cardinality({i \in DOMAIN cancelled : cancelled[i].saleId = 1}) = 1
        /\ \E i \in DOMAIN cancelled :
              /\ cancelled[i].saleId = 1
              /\ cancelled[i].managerUsername = "ben"

(* --------------------------------- C11 --------------------------------- *)
\* the restock payload of an order, from its SaleItems rows
PayloadOfOrder(id) ==
    [i \in DOMAIN sales[id].items |->
        [product_name |-> sales[id].items[i].name,
         quantity |-> sales[id].items[i].quantity]]

\* request r has sent the two restock calls for its order with the one
\* payload, the first to the ingredients endpoint and the second to the
\* materials endpoint, and has the outcome of both
BothRestocksCollected(q) ==
    /\ Len(q.calls) = 2
    /\ q.calls[1].service = "ingredients"
    /\ q.calls[2].service = "materials"
    /\ q.calls[1].payload = PayloadOfOrder(q.orderId)
    /\ q.calls[2].payload = q.calls[1].payload
    /\ Len(q.results) = 2

\* C11 as stated: every cancellation that was committed and answered has
\* sent both restock calls with the same payload and collected both outcomes.
EveryCancellationRestocks ==
    \A r \in OrderReqs :
        ( /\ oreq[r].kind = "update" /\ oreq[r].pc = "done"
          /\ oreq[r].newStatus = "cancelled" /\ oreq[r].status = 200 )
        => BothRestocksCollected(oreq[r])

\* C11, amended: a committed cancellation of an order that has at least one
\* item goes on to the restock calls: both are sent with the same payload
\* and both outcomes are collected before the request returns, whatever the
\* outcome of either call; the request then reports success, and the step
\* leaves the orders and the Cancellation Records as they are.  A committed
\* cancellation of an order without items sends no restock call and reports
\* success.
CancellationRestocks ==
    [][\A r \in OrderReqs :
          /\ ( /\ oreq[r].kind = "update" /\ oreq[r].pc = "commit"
               /\ oreq[r].newStatus = "cancelled"
               /\ OrderStep(r) /\ oreq'[r].error = Null )
             => IF sales[oreq[r].orderId].items # << >>
                THEN oreq'[r].pc = "restock" /\ oreq'[r].calls = << >>
                ELSE /\ oreq'[r].pc = "done" /\ oreq'[r].status = 200
                     /\ oreq'[r].calls = << >>
          /\ ( oreq[r].kind = "update" /\ oreq[r].pc = "restock" /\ OrderStep(r) )
             => /\ oreq'[r].pc = "done"
                /\ BothRestocksCollected(oreq'[r])
                /\ oreq'[r].error = Null
                /\ oreq'[r].status = 200
                /\ sales' = sales
                /\ cancelled' = cancelled]_vars

\* a cancellation of order 1 was answered 200 after its ingredients call
\* raised and its materials call was answered 500; the order is cancelled
\* and has its Cancellation Record
RestockFailedCancellationStands ==
    \E r \in OrderReqs :
        /\ oreq[r].kind = "update" /\ oreq[r].pc = "done"
        /\ oreq[r].newStatus = "cancelled" /\ oreq[r].status = 200
        /\ oreq[r].orderId = 1
        /\ oreq[r].results = <<"exception", "500">>
        /\ Len(oreq[r].calls) = 2
        /\ sales[1].status = "cancelled"
        /\ \E i \in DOMAIN cancelled : cancelled[i].saleId = 1

(* --------------------------------- C12 --------------------------------- *)
\* the Cancellation Record of request q is among the committed rows
RecordCommitted(q) ==
    /\ q.cancelDetails # Null
    /\ \E i \in DOMAIN cancelled :
          /\ cancelled[i].saleId = q.orderId
          /\ cancelled[i].managerUsername = q.cancelDetails[1].managerUsername

\* C12: a restock call is sent only by a request that turns an order to
\* cancelled, and only after that request's transaction has committed: a
\* request comes to its restock calls by its commit alone, which sets the
\* order to cancelled and adds its Cancellation Record, and a request that
\* has sent a restock call has no error, found its order, and is a
\* cancellation.
RestockOnlyAfterCommit ==
    [][\A r \in OrderReqs :
          /\ ( oreq'[r].pc = "restock" /\ oreq[r].pc # "restock" )
             => /\ oreq[r].kind = "update" /\ oreq[r].pc = "commit"
                /\ oreq[r].newStatus = "cancelled"
                /\ oreq[r].orderId \in DOMAIN sales
                /\ sales'[oreq[r].orderId].status = "cancelled"
                /\ Len(cancelled') = Len(cancelled) + 1
                /\ cancelled'[Len(cancelled')].saleId = oreq[r].orderId
          /\ ( oreq'[r].calls # oreq[r].calls /\ oreq'[r].calls # << >> )
             => /\ oreq[r].pc = "restock"
                /\ oreq[r].newStatus = "cancelled"
                /\ oreq[r].error = Null
                /\ oreq[r].orderId \in DOMAIN sales
                /\ RecordCommitted(oreq[r])
          /\ oreq'[r].calls # << >>
             => /\ oreq'[r].newStatus = "cancelled"
                /\ oreq'[r].error = Null]_vars

\* a cancellation is at its restock calls: its order is cancelled and its
\* Cancellation Record is committed, and no call has been sent yet
RestockAfterCommit ==
    \E r \in OrderReqs :
        /\ oreq[r].kind = "update" /\ oreq[r].pc = "restock"
        /\ oreq[r].calls = << >>
        /\ sales[oreq[r].orderId].status = "cancelled"
        /\ RecordCommitted(oreq[r])

(* --------------------------------- C13 --------------------------------- *)
\* C13: the cancellation write sequence is all or nothing.  The committed
\* Sales and CancelledOrders rows change only in the commit step of a request
\* that ends its write sequence without an error: a cancellation's commit
\* sets the status and adds its Cancellation Record together, another
\* request's commit adds no record; a request that surfaces an error leaves
\* the committed rows as they were; and every order with status cancelled has
\* a Cancellation Record.
CancellationAllOrNothing ==
    [][/\ \A r \in OrderReqs :
             ( /\ oreq[r].kind = "update" /\ oreq[r].pc # "done"
               /\ oreq'[r].pc = "done" /\ oreq'[r].error # Null )
             => sales' = sales /\ cancelled' = cancelled
       /\ (sales' # sales \/ cancelled' # cancelled)
             => \E r \in OrderReqs :
                   /\ oreq[r].kind = "update" /\ oreq[r].pc = "commit"
                   /\ oreq'[r].pc \in {"restock", "done"}
                   /\ oreq'[r].error = Null
                   /\ sales' = [sales EXCEPT ![oreq[r].orderId].status =
                                                 oreq[r].newStatus]
                   /\ IF oreq[r].newStatus = "cancelled"
                      THEN /\ Len(cancelled') = Len(cancelled) + 1
                           /\ SubSeq(cancelled', 1, Len(cancelled)) = cancelled
                           /\ cancelled'[Len(cancelled')].saleId = oreq[r].orderId
                      ELSE cancelled' = cancelled
       /\ \A id \in DOMAIN sales' :
             sales'[id].status = "cancelled"
                => \E i \in DOMAIN cancelled' : cancelled'[i].saleId = id]_vars

\* a cancellation of order 1 failed after its INSERT ran and surfaced an
\* error: the order has the status it had and there is no Cancellation Record
CancellationRolledBack ==
    \E r \in OrderReqs :
        /\ oreq[r].kind = "update" /\ oreq[r].pc = "done"
        /\ oreq[r].newStatus = "cancelled" /\ oreq[r].orderId = 1
        /\ oreq[r].error = Some(StoreError) /\ oreq[r].status = 500
        /\ oreq[r].stamp # 0
        /\ sales[1].status = "completed"
        /\ cancelled = << >>

(* --------------------------------- C14 --------------------------------- *)
\* C14: after any sequence of update_order_status requests every order has
\* at most one Cancellation Record.
AtMostOneRecordPerOrder ==
    \A id \in DOMAIN sales :
        Cardinality({i \in DOMAIN cancelled : cancelled[i].saleId = id}) <= 1

(* --------------------------------- C15 --------------------------------- *)
\* C15: update_order_status on an order id that matches no sale is answered
\* 404 for every newStatus, cancelled included, and commits no write.
UnknownOrderIs404 ==
    [][\A r \in OrderReqs :
          ( /\ oreq[r].kind = "update" /\ oreq[r].pc = "update"
            /\ oreq[r].orderId \notin DOMAIN sales
            /\ OrderStep(r)
            /\ oreq'[r].error # Some(StoreError) )
          => /\ oreq'[r].pc = "done"
             /\ oreq'[r].status = 404
             /\ sales' = sales
             /\ cancelled' = cancelled]_vars

(* --------------------------------- C18 --------------------------------- *)
\* the requests of the aggregating endpoints that have answered
Aggregated ==
    { r \in OrderReqs : /\ oreq[r].kind \in AggregationEndpoints
                        /\ oreq[r].pc = "done" /\ oreq[r].status = 200 }

\* the positions of the rows of a sale in a sequence of rows
RowsOf(rows, id) == { k \in DOMAIN rows : rows[k].saleId = id }

\* the positions of the orders of a sale in a response
OrdersOf(orders, id) == { i \in DOMAIN orders : orders[i].id = <<"SO", id>> }

\* the sales of a sequence of rows
SaleIdsOf(rows) == { rows[k].saleId : k \in DOMAIN rows }

\* C18: for every sequence of rows the aggregation returns exactly one order
\* per distinct sale id of the rows, however many item rows the sale has; a
\* sale whose only row has a null item key still appears, with items = 0, no
\* orderItems and total = 0 - totalDiscount.
OneOrderPerSale ==
    \A r \in Aggregated :
      LET rows == oreq[r].cursor
          orders == oreq[r].response_list
      IN  /\ Len(orders) = Cardinality(SaleIdsOf(rows))
          /\ \A id \in SaleIdsOf(rows) :
                /\ Cardinality(OrdersOf(orders, id)) = 1
                /\ \A k \in RowsOf(rows, id) :
                      (RowsOf(rows, id) = {k} /\ rows[k].saleItemId = Null)
                         => \A i \in OrdersOf(orders, id) :
                               /\ orders[i].items = 0
                               /\ orders[i].orderItems = << >>
                               /\ orders[i].total = 0 - rows[k].totalDiscount

\* an answer with two orders: one of a discounted sale whose only row has no
\* item, one of a sale with two item rows
AggregatedSaleWithoutItems ==
    \E r \in Aggregated :
      LET rows == oreq[r].cursor
      IN  /\ Len(oreq[r].response_list) = 2
          /\ \E k \in DOMAIN rows :
                /\ RowsOf(rows, rows[k].saleId) = {k}
                /\ rows[k].saleItemId = Null /\ rows[k].totalDiscount > 0
          /\ \E id \in SaleIdsOf(rows) : Cardinality(RowsOf(rows, id)) = 2

(* --------------------------------- C19 --------------------------------- *)
\* price x quantity of a row, nothing for a row without an item; a NULL
\* price or quantity counts as 0
RowValue(row) ==
    IF row.saleItemId = Null THEN 0
    ELSE OrZero(row.unitPrice) * OrZero(row.quantity)

RECURSIVE RowsValue(_, _)
\* the sum of price x quantity over the rows at the positions ks
RowsValue(rows, ks) ==
    IF ks = {} THEN 0
    ELSE LET k == CHOOSE k \in ks : TRUE
         IN  RowValue(rows[k]) + RowsValue(rows, ks \ {k})

\* rows with the rows at positions i and j exchanged
Swapped(rows, i, j) ==
    [k \in DOMAIN rows |-> IF k = i THEN rows[j] ELSE IF k = j THEN rows[i] ELSE rows[k]]

\* the totals of a response, by order id
TotalsOf(orders) == { <<orders[i].id, orders[i].total>> : i \in DOMAIN orders }

\* C19: for every order the aggregation returns, total + totalDiscount is the
\* sum of price x quantity over the item rows of its sale in the input, in
\* cents, and the totals are the same for every permutation of the rows
\* (every exchange of two rows, of every input).
TotalIsItemSumLessDiscount ==
    \A r \in Aggregated :
      LET rows == oreq[r].cursor
          orders == oreq[r].response_list
      IN  /\ \A i \in DOMAIN orders : \A k \in DOMAIN rows :
                orders[i].id = <<"SO", rows[k].saleId>>
                   => orders[i].total + rows[k].totalDiscount
                         = RowsValue(rows, RowsOf(rows, rows[k].saleId))
          /\ \A i, j \in DOMAIN rows :
                TotalsOf(Aggregate(Swapped(rows, i, j))) = TotalsOf(orders)

\* an answer with the order of a discounted sale whose two items are parted
\* by a row of another sale: 2 x 50 + 1 x 30 less 5
AggregatedDiscountedSale ==
    \E r \in Aggregated :
      LET rows == oreq[r].cursor
          orders == oreq[r].response_list
      IN  /\ Len(rows) = 3
          /\ rows[1].saleId = rows[3].saleId /\ rows[2].saleId # rows[1].saleId
          /\ rows[1].totalDiscount = 5
          /\ rows[1].itemName = "bagel" /\ rows[3].itemName = "latte"
          /\ \E i \in DOMAIN orders :
                orders[i].id = <<"SO", rows[1].saleId>> /\ orders[i].total = 125

(* --------------------------------- C20 --------------------------------- *)
\* the position of the first row of a sale
FirstRowOf(rows, id) ==
    CHOOSE k \in RowsOf(rows, id) : \A m \in RowsOf(rows, id) : k <= m

RECURSIVE ItemsInRowOrder(_, _)
\* the items of the rows of a sale, in the order of the rows
ItemsInRowOrder(rows, id) ==
    IF rows = << >> THEN << >>
    ELSE LET row == Head(rows)
             rest == ItemsInRowOrder(Tail(rows), id)
         IN  IF row.saleId = id /\ row.saleItemId # Null
             THEN << [ name |-> row.itemName, quantity |-> OrZero(row.quantity),
                       price |-> OrZero(row.unitPrice) ] >> \o rest
             ELSE rest

\* C20: the aggregation emits the orders in the order in which their sale ids
\* first appear in the rows, and the orderItems of each order are the item
\* rows of its sale in row order, also when the rows of a sale are not
\* contiguous.
OrdersInFirstSeenOrder ==
    \A r \in Aggregated :
      LET rows == oreq[r].cursor
          orders == oreq[r].response_list
      IN  /\ \A i \in DOMAIN orders : orders[i].id[2] \in SaleIdsOf(rows)
          /\ \A i, j \in DOMAIN orders :
                i < j => FirstRowOf(rows, orders[i].id[2])
                            < FirstRowOf(rows, orders[j].id[2])
          /\ \A i \in DOMAIN orders :
                orders[i].orderItems = ItemsInRowOrder(rows, orders[i].id[2])

\* an answer to rows in which an item of a later sale lies between the two
\* items of the first sale, and the first sale has the greater id
AggregatedInterleavedSales ==
    \E r \in Aggregated :
      LET rows == oreq[r].cursor
          orders == oreq[r].response_list
      IN  /\ Len(rows) = 3 /\ Len(orders) = 2
          /\ rows[1].saleId = rows[3].saleId /\ rows[2].saleId < rows[1].saleId
          /\ \A k \in DOMAIN rows : rows[k].saleItemId # Null
          /\ rows[1].itemName # rows[3].itemName
          /\ Len(orders[1].orderItems) = 2 /\ Len(orders[2].orderItems) = 1

(* --------------------------------- C17 --------------------------------- *)
\* C17: every validation failure is rejected with 400 before the request
\* touches the store: a request that its handler turned down with a 400 has
\* acquired no store connection.
ValidationBeforeStore ==
    /\ \A r \in RaceReqs :
          (req[r].pc = "done" /\ req[r].error = Some(HTTPException(400)))
             => req[r].conn = "none"
    /\ \A r \in OrderReqs :
          (oreq[r].pc = "done" /\ oreq[r].error = Some(HTTPException(400)))
             => oreq[r].conn = "none"

(* --------------------------------- C16 --------------------------------- *)
\* the step is the arrival, at an endpoint of the session service, of a
\* request of an authenticated caller whose role is not in the allow-list of
\* the endpoint
SessionArrivalOutOfRole(r, user) ==
    /\ req[r].kind = "idle" /\ req'[r].kind # "idle"
    /\ \/ /\ user.userRole \notin StartAllowedRoles
          /\ \E initial_cash \in InitialCashInputs :
                StartBegin(r, "ok", user, initial_cash)
       \/ /\ user.userRole \notin CloseAllowedRoles
          /\ \E sessionId \in 1..MaxSessions, cashCounts \in CashCountInputs :
                CloseBegin(r, "ok", user, sessionId, cashCounts)
       \/ /\ user.userRole \notin StatusAllowedRoles
          /\ \E cashier_name \in StatusCashierInputs :
                StatusBegin(r, "ok", user, cashier_name)

\* the same at an endpoint of the sales service
SalesArrivalOutOfRole(r, user) ==
    /\ oreq[r].kind = "idle" /\ oreq'[r].kind # "idle"
    /\ \/ /\ user.userRole \notin UpdateAllowedRoles
          /\ \E order_id \in OrderIdInputs, request \in UpdateRequestInputs :
                UpdBegin(r, "ok", user, order_id, request)
       \/ /\ user.userRole \notin SaveAllowedRoles
          /\ \E order_data \in OnlineOrderInputs :
                SaveBegin(r, "ok", user, order_data)
       \/ \E endpoint \in ReadEndpoints :
             /\ user.userRole \notin ReadAllowedRoles(endpoint)
             /\ \E cashierName \in CashierNameInputs(endpoint) :
                   ReadBegin(r, endpoint, "ok", user, cashierName)

\* a request that was answered 403 and has no connection
Forbidden(q) ==
    /\ q.pc = "done" /\ q.status = 403 /\ q.error = Some(HTTPException(403))
    /\ q.conn = "none"

\* the step writes nothing to the store
StoreKept ==
    /\ sessions' = sessions /\ nextSessionId' = nextSessionId
    /\ sales' = sales /\ nextSaleId' = nextSaleId /\ cancelled' = cancelled

RecordedOrderIsCancelled ==
    \A i \in DOMAIN cancelled :
        /\ cancelled[i].saleId \in DOMAIN sales
        /\ sales[cancelled[i].saleId].status = "cancelled"

(* --------------------------------- C24 --------------------------------- *)
\* C24: after any sequence of save_online_order and update_order_status
\* requests the status of every stored order is one of processing,
\* completed, cancelled.
StoredStatusesAreClosed ==
    \A id \in DOMAIN sales :
        sales[id].status \in {"processing", "completed", "cancelled"}

(* --------------------------------- C22 --------------------------------- *)
\* the request ends in this step on an error of the store
FailedOnStore(q, q2) ==
    q.pc # "done" /\ q2.pc = "done" /\ q2.error = Some(StoreError)

\* C22: in every write endpoint (save_online_order, update_order_status,
\* start_session, close_session) an unexpected store error during the write
\* sequence rolls the sequence back and surfaces a generic server error
\* whose body carries no detail of the underlying error.
StoreErrorIsGeneric ==
    [][ /\ \A r \in Reqs :
              (req[r].kind \in {"start", "close"} /\ FailedOnStore(req[r], req'[r]))
                 => /\ StoreKept
                    /\ req'[r].status = 500 /\ req'[r].body.message = ""
        /\ \A r \in OrderReqs :
              ( /\ oreq[r].kind \in {"update", "save_online_order"}
                /\ FailedOnStore(oreq[r], oreq'[r]) )
                 => /\ StoreKept
                    /\ oreq'[r].status = 500 /\ oreq'[r].body.message = "" ]_vars

(* --------------------------------- C26 --------------------------------- *)
\* the requests for the processing orders that have their answer
ProcessingAnswered ==
    { r \in OrderReqs : /\ oreq[r].kind = "get_processing_orders"
                        /\ oreq[r].pc = "done" /\ oreq[r].status = 200 }

\* the ids of the orders of a response
ReturnedIds(orders) == { orders[i].id : i \in DOMAIN orders }

\* the ids of the listed orders of a cashier, of all cashiers for Null
ListedOrderIds(cashierName) ==
    { <<"SO", id>> :
        id \in { i \in DOMAIN sales :
                   /\ sales[i].status \in {"processing", "completed", "cancelled"}
                   /\ cashierName # Null => sales[i].cashier = cashierName[1] } }

\* C26: get_processing_orders never returns another cashier's order to a
\* caller whose role is staff or cashier: every order such a caller gets has
\* the caller's own username as its cashierName, whatever the cashierName
\* parameter; admin and manager callers, and only they, get the orders of
\* the cashier the parameter names, or of all cashiers when it is absent.
OwnOrdersOnly ==
    \A r \in ProcessingAnswered :
      LET q == oreq[r]
          orders == q.response_list
      IN  IF q.userRole \in {"staff", "cashier"}
          THEN /\ \A i \in DOMAIN orders : orders[i].cashierName = q.username
               /\ ReturnedIds(orders) = ListedOrderIds(Some(q.username))
          ELSE /\ q.userRole \in {"admin", "manager"}
               /\ q.cashierName # Null =>
                     \A i \in DOMAIN orders : orders[i].cashierName = q.cashierName[1]
               /\ ReturnedIds(orders) = ListedOrderIds(q.cashierName)

\* cashier ana asked for the orders of ben, who has one, and got her own
AskedForAnothersOrders ==
    \E r \in ProcessingAnswered :
        /\ oreq[r].userRole = "cashier" /\ oreq[r].username = "ana"
        /\ oreq[r].cashierName = Some("ben")
        /\ \E id \in DOMAIN sales : sales[id].cashier = "ben"
        /\ oreq[r].response_list # << >>
        /\ \A i \in DOMAIN oreq[r].response_list :
              oreq[r].response_list[i].cashierName = "ana"

(* --------------------------------- C21 --------------------------------- *)
\* the requests for the top products that have their answer
TopAnswered ==
    { r \in OrderReqs : /\ oreq[r].kind = "get_top_products_today"
                        /\ oreq[r].pc = "done" /\ oreq[r].status = 200 }

\* the items <<sale, position>> of the name in the sales of the cashier
\* that are completed and dated today
SoldToday(cashierName, name) ==
    UNION { { <<id, k>> : k \in { j \in DOMAIN sales[id].items :
                                     sales[id].items[j].name = name } } :
            id \in { i \in DOMAIN sales : /\ sales[i].status = "completed"
                                          /\ sales[i].cashier = cashierName
                                          /\ sales[i].createdAt = now } }

RECURSIVE QuantityOf(_)
\* the quantities of the items <<sale, position>> together
QuantityOf(sold) ==
    IF sold = {} THEN 0
    ELSE LET p == CHOOSE x \in sold : TRUE
         IN  sales[p[1]].items[p[2]].quantity + QuantityOf(sold \ {p})

\* at most 10 entries, each the summed quantity of one item name
TopTenOfToday(q) ==
    /\ Len(q.response_list) <= 10
    /\ \A i \in DOMAIN q.response_list :
          /\ SoldToday(q.cashierName[1], q.response_list[i].name) # {}
          /\ q.response_list[i].sales =
                QuantityOf(SoldToday(q.cashierName[1], q.response_list[i].name))

\* C21 as stated: get_top_products_today returns at most 10 entries, each
\* the summed quantity of one item name over the given cashier's sales that
\* are completed and dated today, and the entries are strictly descending by
\* summed quantity (no two consecutive entries have equal sales).
TopTenStrictlyDescending ==
    \A r \in TopAnswered :
        /\ TopTenOfToday(oreq[r])
        /\ \A i \in 1..(Len(oreq[r].response_list) - 1) :
              oreq[r].response_list[i].sales > oreq[r].response_list[i + 1].sales

\* C21 as amended: get_top_products_today returns at most 10 entries, each
\* the summed quantity of one item name over the given cashier's sales that
\* are completed and dated today, and the entries are descending by summed
\* quantity: no entry has smaller sales than the entry after it, and two
\* consecutive entries can have equal sales.
TopTenDescending ==
    \A r \in TopAnswered :
        /\ TopTenOfToday(oreq[r])
        /\ \A i \in 1..(Len(oreq[r].response_list) - 1) :
              oreq[r].response_list[i].sales >= oreq[r].response_list[i + 1].sales

\* more than ten names were sold, ten came back, and two consecutive
\* entries have equal sales
TopTenWithEqualSales ==
    \E r \in TopAnswered :
        LET top == oreq[r].response_list
            names == UNION { { sales[id].items[k].name : k \in DOMAIN sales[id].items } :
                             id \in DOMAIN sales }
            sold == { n \in names : SoldToday(oreq[r].cashierName[1], n) # {} }
        IN  /\ Len(top) = 10
            /\ Cardinality(sold) > 10
            /\ \E i \in 1..9 : top[i].sales = top[i + 1].sales

(* --------------------------------- C23 --------------------------------- *)
\* C23: every store connection a request acquires is released before the
\* request completes, on every path (success, a client error raised after
\* acquisition, a store error, a failure of the rollback itself): no request
\* ends while still holding a connection.
NoConnectionHeld ==
    /\ \A r \in RaceReqs : req[r].pc = "done" => req[r].conn # "open"
    /\ \A r \in OrderReqs : oreq[r].pc = "done" => oreq[r].conn # "open"

====
